---- MODULE Spec2Model ----
(***************************************************************************)
(* Model of the scripts of RangefinderApp/ml_pipeline/scripts: the         *)
(* VisDrone -> YOLO dataset converter (prepare_visdrone.py), train.py,     *)
(* export_coreml.py and create_sample_dataset.py.                          *)
(*                                                                         *)
(* The specifications share the variables:                                 *)
(*   SpecConv  one call of convert_visdrone_annotation on an input drawn   *)
(*             from a bounded set of annotation lines and image sizes;     *)
(*   Spec      one run of main(): process_split over the requested splits, *)
(*             image by image, then the dataset.yaml manifest;             *)
(*   SpecFile  one annotation file taken through the line loop of          *)
(*             process_split;                                              *)
(*   SpecRerun a run of main() followed by a second run into its output;   *)
(*   SpecTrain one call of train(): config file, overrides, defaults and   *)
(*             the model.train() call;                                     *)
(*   SpecExport one call of export_to_coreml();                            *)
(*   SpecSample one call of create_sample_dataset().                       *)
(*                                                                         *)
(* Text is modelled as a sequence of one-character strings where the code  *)
(* takes it apart (an annotation line), and as a TLA+ string where the     *)
(* code only builds it (an output label line).  Python floats are modelled *)
(* as exact fractions <<num, den>>; the one place where the binary         *)
(* rounding of a float is observable, the "%.6f" formatter, is modelled    *)
(* down to the direction in which the double differs from the fraction.    *)
(***************************************************************************)
EXTENDS Integers, Sequences, FiniteSets, TLC

VARIABLES
    \* ---- one call of convert_visdrone_annotation (SpecConv)
    line,           \* the annotation line, a sequence of characters
    img_width,      \* image width handed to the call
    img_height,     \* image height handed to the call
    conv,           \* "pending", or the call's locals at its return
    \* ---- one run of main() (Spec)
    src,            \* the source tree: root, split directories, images
    splits,         \* args.splits, the requested split names in order
    out,            \* the output tree: directories, images, labels, manifest
    pc,             \* position of the run
    split_idx,      \* index in splits of the split being processed
    image_files,    \* process_split: images still to visit, in listing order
    img,            \* process_split: the image being handled, or NoImage
    yolo_lines,     \* process_split: records collected for img
    processed,      \* process_split: counter of the current split
    skipped,        \* process_split: counter of the current split
    returned,       \* the (processed, skipped) pair returned for each split visit
    total_processed,\* main: run total
    total_skipped,  \* main: run total
    log,            \* what happened to each image visit, for the run's report
    \* ---- one annotation file read by process_split (SpecFile)
    ann,            \* the lines of the annotation file, in file order
    \* ---- a second run of main() into the output of the first (SpecRerun)
    first_run,      \* <<>>, or what the first run left and reported
    \* ---- one call of train() in train.py (SpecTrain)
    train_args,     \* the arguments epochs, batch, device, project, name
    training_config,\* the YAML file at the training_config path
    train_cfg,      \* the local dict train_cfg
    train_kwargs,   \* what model.train() is called with, or <<>>
    \* ---- one call of export_to_coreml() in export_coreml.py (SpecExport)
    quantize,       \* the quantize argument
    COREML_AVAILABLE, \* whether "import coremltools" succeeded
    exported_file,  \* the local exported_file: a path and what is stored there
    output_path,    \* the models in the output directory, by file name
    export_result,  \* what the call returned, or "running"
    \* ---- one call of create_sample_dataset() (SpecSample)
    num_images,     \* the num_images argument
    pil_available,  \* whether "from PIL import Image" / numpy import succeeded
    counts,         \* the dict counts: split name -> number of samples
    image_id,       \* the running sample id
    split_pos,      \* index of the split being generated
    range_i,        \* the loop variable i of "for i in range(count)"
    dataset_files   \* the image and label files written

conv_vars == <<line, img_width, img_height, conv>>
run_vars  == <<src, splits, out, pc, split_idx, image_files, img, yolo_lines,
               processed, skipped, returned, total_processed, total_skipped, log>>
vars      == <<line, img_width, img_height, conv,
               src, splits, out, pc, split_idx, image_files, img, yolo_lines,
               processed, skipped, returned, total_processed, total_skipped, log,
               ann, first_run,
               train_args, training_config, train_cfg, train_kwargs,
               quantize, COREML_AVAILABLE, exported_file, output_path,
               export_result,
               num_images, pil_available, counts, image_id, split_pos, range_i,
               dataset_files>>

train_vars == <<train_args, training_config, train_cfg, train_kwargs>>
export_vars == <<quantize, COREML_AVAILABLE, exported_file, output_path,
                 export_result>>
sample_vars == <<num_images, pil_available, counts, image_id, split_pos,
                 range_i, dataset_files>>
\* The variables of the other scripts of the pipeline.
tool_vars  == <<train_vars, export_vars, sample_vars>>
\* The variables of prepare_visdrone.py.
prepare_vars == <<line, img_width, img_height, conv,
                  src, splits, out, split_idx, image_files, img, yolo_lines,
                  processed, skipped, returned, total_processed, total_skipped,
                  log, ann, first_run>>
\* What a call of train() leaves alone.
not_train_vars == <<prepare_vars, export_vars, sample_vars>>
\* What a call of export_to_coreml() leaves alone.
not_export_vars == <<prepare_vars, train_vars, sample_vars>>
\* What a call of create_sample_dataset() leaves alone.
not_sample_vars == <<prepare_vars, train_vars, export_vars>>

(***************************************************************************)
(* Bounds of the model                                                     *)
(***************************************************************************)
\* Offsets explored on each side of a boundary value (0, MIN_BOX_SIZE).
Slack == 1
\* Largest source class id explored; VisDrone ids are 0..10.
MaxClass == 10
\* Number of image files in the source tree, over all splits.
MaxImages == 2
\* Number of split names on the command line (--splits takes one or more).
MaxSplits == 2

(***************************************************************************)
(* Program constants                                                       *)
(***************************************************************************)
MIN_BOX_SIZE == 10

\* The table with the target ids renumbered contiguously.
VisdroneMapContiguous ==
    (1 :> 0) @@ (2 :> 0) @@ (4 :> 1) @@ (5 :> 2) @@ (6 :> 2) @@ (9 :> 2)

VISDRONE_TO_SNIPERSCOPE ==
    (1 :> 0) @@ (2 :> 0) @@ (4 :> 2) @@ (5 :> 3) @@ (6 :> 3) @@ (9 :> 3)

\* Python's None, as returned by convert_visdrone_annotation on a reject.
NoneVal == "None"

(***************************************************************************)
(* Text: str.strip, str.split, int(), str(int)                             *)
(***************************************************************************)
Whitespace == {" ", "\n", "\t", "\r"}

DigitVal ==
    ("0" :> 0) @@ ("1" :> 1) @@ ("2" :> 2) @@ ("3" :> 3) @@ ("4" :> 4) @@
    ("5" :> 5) @@ ("6" :> 6) @@ ("7" :> 7) @@ ("8" :> 8) @@ ("9" :> 9)

DigitChar == <<"0", "1", "2", "3", "4", "5", "6", "7", "8", "9">>

IsDigit(c) == c \in DOMAIN DigitVal

RECURSIVE LStrip(_)
LStrip(s) ==
    IF s # <<>> /\ Head(s) \in Whitespace THEN LStrip(Tail(s)) ELSE s

RECURSIVE RStrip(_)
RStrip(s) ==
    IF s # <<>> /\ s[Len(s)] \in Whitespace
    THEN RStrip(SubSeq(s, 1, Len(s) - 1))
    ELSE s

\* str.strip(): whitespace removed at both ends only.
Strip(s) == RStrip(LStrip(s))

\* str.split(sep): the fields between separators; always at least one field.
RECURSIVE Split(_, _)
Split(s, sep) ==
    IF \E i \in 1..Len(s) : s[i] = sep
    THEN LET i == CHOOSE k \in 1..Len(s) :
                      s[k] = sep /\ \A j \in 1..(k - 1) : s[j] # sep
         IN  <<SubSeq(s, 1, i - 1)>> \o Split(SubSeq(s, i + 1, Len(s)), sep)
    ELSE <<s>>

\* The part of an int() literal after surrounding whitespace and the sign.
IntDigits(f) ==
    LET t == Strip(f)
    IN  IF t # <<>> /\ Head(t) \in {"+", "-"} THEN Tail(t) ELSE t

IntNegative(f) ==
    LET t == Strip(f) IN t # <<>> /\ Head(t) = "-"

\* A literal without any digit accepted, and read as 0.
IntParsesLenient(f) ==
    LET b == IntDigits(f)
    IN  \A i \in 1..Len(b) :
            \/ IsDigit(b[i])
            \/ /\ b[i] = "_"
               /\ i > 1 /\ i < Len(b)
               /\ IsDigit(b[i - 1]) /\ IsDigit(b[i + 1])

\* int(str) succeeds: optional whitespace, optional sign, one or more digits,
\* single underscores allowed between digits.  Anything else is ValueError.
IntParses(f) ==
    LET b == IntDigits(f)
    IN  /\ b # <<>>
        /\ \A i \in 1..Len(b) :
              \/ IsDigit(b[i])
              \/ /\ b[i] = "_"
                 /\ i > 1 /\ i < Len(b)
                 /\ IsDigit(b[i - 1]) /\ IsDigit(b[i + 1])

RECURSIVE DigitsValue(_, _)
DigitsValue(b, acc) ==
    IF b = <<>> THEN acc
    ELSE IF Head(b) = "_" THEN DigitsValue(Tail(b), acc)
    ELSE DigitsValue(Tail(b), acc * 10 + DigitVal[Head(b)])

\* int(str) where IntParses(f).
ParseInt(f) ==
    LET v == DigitsValue(IntDigits(f), 0)
    IN  IF IntNegative(f) THEN 0 - v ELSE v

\* The decimal digits of a natural number, as characters.
RECURSIVE NatChars(_)
NatChars(n) ==
    IF n < 10 THEN <<DigitChar[n + 1]>>
    ELSE NatChars(n \div 10) \o <<DigitChar[(n % 10) + 1]>>

\* str(int), as characters: how an annotation file spells an integer.
IntChars(n) == IF n < 0 THEN <<"-">> \o NatChars(0 - n) ELSE NatChars(n)

\* The decimal digits of a natural number, as a string.
RECURSIVE NatStr(_)
NatStr(n) ==
    IF n < 10 THEN DigitChar[n + 1]
    ELSE NatStr(n \div 10) \o DigitChar[(n % 10) + 1]

(***************************************************************************)
(* Floats: fractions, and the "%.6f" formatter                             *)
(***************************************************************************)
RECURSIVE Gcd(_, _)
Gcd(a, b) == IF b = 0 THEN a ELSE Gcd(b, a % b)

RECURSIVE IsPowerOfTwo(_)
IsPowerOfTwo(n) ==
    IF n = 1 THEN TRUE
    ELSE IF n % 2 = 1 THEN FALSE
    ELSE IsPowerOfTwo(n \div 2)

\* 0 <= a/b <= 1 and 0 < a/b <= 1 for a fraction <<a, b>> with b > 0.
InClosedUnit(f) == 0 <= f[1] /\ f[1] <= f[2]
InHalfOpenUnit(f) == 0 < f[1] /\ f[1] <= f[2]

\* (p * 2^e) mod q, by repeated doubling.
RECURSIVE ShiftMod(_, _, _)
ShiftMod(p, e, q) == IF e = 0 THEN p % q ELSE ShiftMod((2 * p) % q, e - 1, q)

\* The least j with p * 2^j >= q, for 0 < p.
RECURSIVE BinaryExponent(_, _)
BinaryExponent(p, q) == IF p >= q THEN 0 ELSE 1 + BinaryExponent(2 * p, q)

\* The IEEE double nearest to p/q (0 < p < q, lowest terms, q not a power of
\* two) is above p/q: the 53-bit significand p * 2^e / q was rounded up.
DoubleIsAbove(p, q) ==
    LET e == 52 + BinaryExponent(p, q)
    IN  2 * ShiftMod(p, e, q) > q

\* The six digits after the point of num/den truncated, as a number, and the
\* remainder left by the long division: <<digits, remainder>>.
RECURSIVE LongDivision(_, _, _, _)
LongDivision(r, den, k, acc) ==
    IF k = 0 THEN <<acc, r>>
    ELSE LongDivision((r * 10) % den, den, k - 1, acc * 10 + ((r * 10) \div den))

\* f"{v:.6f}" in millionths, for the double v nearest to num/den >= 0: the
\* decimal expansion of the double rounded to 6 places, ties to even.  The
\* double differs from the fraction by less than any non-tie distance, so it
\* matters only when the fraction is an exact tie.
Micro(f) ==
    LET num == f[1]
        den == f[2]
        ld  == LongDivision(num % den, den, 6, num \div den)
        t   == ld[1]
        r   == ld[2]
        g   == Gcd(num, den)
        p   == num \div g
        q   == den \div g
    IN  IF 2 * r < den THEN t
        ELSE IF 2 * r > den THEN t + 1
        ELSE IF IsPowerOfTwo(q) THEN (IF t % 2 = 1 THEN t + 1 ELSE t)
        ELSE IF DoubleIsAbove(p % q, q) THEN t + 1
        ELSE t

\* Six digits, zero padded.
Pad6(n) ==
    DigitChar[((n \div 100000) % 10) + 1] \o DigitChar[((n \div 10000) % 10) + 1] \o
    DigitChar[((n \div 1000) % 10) + 1]   \o DigitChar[((n \div 100) % 10) + 1] \o
    DigitChar[((n \div 10) % 10) + 1]     \o DigitChar[(n % 10) + 1]

\* f"{v:.6f}": the sign, the integer part, the point and six digits.
Fmt6(f) ==
    LET neg == f[1] < 0
        m   == Micro(IF neg THEN <<0 - f[1], f[2]>> ELSE f)
    IN  (IF neg THEN "-" ELSE "") \o
        NatStr(m \div 1000000) \o "." \o Pad6(m % 1000000)

(***************************************************************************)
(* convert_visdrone_annotation                                             *)
(***************************************************************************)
ZeroBox == [x |-> 0, y |-> 0, w |-> 0, h |-> 0]
ZeroFrac == <<0, 1>>

\* The locals of the call at a return that happens before the transform.
Rejected(stage, cls, raw, box, clipped) ==
    [ret |-> NoneVal, stage |-> stage, cls |-> cls, raw |-> raw, box |-> box,
     clipped |-> clipped,
     cx |-> ZeroFrac, cy |-> ZeroFrac, nw |-> ZeroFrac, nh |-> ZeroFrac]

\* parts = line.strip().split(',')
Parts(ln) == Split(Strip(ln), ",")

\* int() of each of the first eight fields, score, truncation and occlusion
\* included.
FieldsParseAll(parts) == \A i \in 1..8 : IntParses(parts[i])

\* The try block: int() of fields 0, 1, 2, 3 and 5 (1-based 1, 2, 3, 4, 6).
FieldsParse(parts) == \A i \in {1, 2, 3, 4, 6} : IntParses(parts[i])

ClassIsMapped(visdrone_class) == visdrone_class \in DOMAIN VISDRONE_TO_SNIPERSCOPE

\* The size filter with the comparison turned strict.
TooSmallStrict(w, h) == w <= MIN_BOX_SIZE \/ h <= MIN_BOX_SIZE

\* The size filter blind to sizes of zero and below.
TooSmallPositiveOnly(w, h) ==
    (0 < w /\ w < MIN_BOX_SIZE) \/ (0 < h /\ h < MIN_BOX_SIZE)

\* w < MIN_BOX_SIZE or h < MIN_BOX_SIZE
TooSmall(w, h) == w < MIN_BOX_SIZE \/ h < MIN_BOX_SIZE

\* The bounds test blind to a box that overflows to the right or the bottom.
OutOfBoundsOriginOnly(b, W, H) == b.x < 0 \/ b.y < 0

\* x < 0 or y < 0 or x + w > img_width or y + h > img_height
OutOfBounds(b, W, H) == b.x < 0 \/ b.y < 0 \/ b.x + b.w > W \/ b.y + b.h > H

Max(a, b) == IF a >= b THEN a ELSE b
Min(a, b) == IF a <= b THEN a ELSE b

\* Clipping that cuts w and h against the image size, not the room left.
ClipNoOffset(b, W, H) ==
    [x |-> Max(0, b.x), y |-> Max(0, b.y), w |-> Min(b.w, W), h |-> Min(b.h, H)]

\* Clipping that moves the origin into the image and leaves w and h alone.
ClipOriginOnly(b, W, H) ==
    [x |-> Max(0, b.x), y |-> Max(0, b.y), w |-> b.w, h |-> b.h]

\* The four assignments of the clipping block, in order: w and h are cut
\* against the already clipped x and y.
Clip(b, W, H) ==
    LET x == Max(0, b.x)
        y == Max(0, b.y)
    IN  [x |-> x, y |-> y, w |-> Min(b.w, W - x), h |-> Min(b.h, H - y)]

\* cx = (x + w / 2) / img_width, and so on, as fractions.
CenterX(b, W) == <<2 * b.x + b.w, 2 * W>>
CenterY(b, H) == <<2 * b.y + b.h, 2 * H>>
NormW(b, W)   == <<b.w, W>>
NormH(b, H)   == <<b.h, H>>

\* 0 <= cx <= 1 and 0 <= cy <= 1 and 0 < nw <= 1 and 0 < nh <= 1
Valid(cx, cy, nw, nh) ==
    InClosedUnit(cx) /\ InClosedUnit(cy) /\ InHalfOpenUnit(nw) /\ InHalfOpenUnit(nh)

\* f"{sniperscope_class} {cx:.6f} {cy:.6f} {nw:.6f} {nh:.6f}"
FormatRecord(sniperscope_class, cx, cy, nw, nh) ==
    NatStr(sniperscope_class) \o " " \o Fmt6(cx) \o " " \o Fmt6(cy) \o " " \o
    Fmt6(nw) \o " " \o Fmt6(nh)

\* The transform applied to the box as annotated: no clipping, no validation.
GeometryUnguarded(cls, raw, W, H) ==
    LET cx == CenterX(raw, W)
        cy == CenterY(raw, H)
        nw == NormW(raw, W)
        nh == NormH(raw, H)
    IN  [ret |-> "", stage |-> "emitted", cls |-> cls, raw |-> raw, box |-> raw,
         clipped |-> FALSE, cx |-> cx, cy |-> cy, nw |-> nw, nh |-> nh]

\* Clipping without the second size test after it.
GeometryNoRecheck(cls, raw, W, H) ==
    LET clipped == OutOfBounds(raw, W, H)
        b  == IF clipped THEN Clip(raw, W, H) ELSE raw
        cx == CenterX(b, W)
        cy == CenterY(b, H)
        nw == NormW(b, W)
        nh == NormH(b, H)
    IN  IF ~Valid(cx, cy, nw, nh)
        THEN [Rejected("invalid_range", cls, raw, b, clipped)
                EXCEPT !.cx = cx, !.cy = cy, !.nw = nw, !.nh = nh]
        ELSE [ret |-> "", stage |-> "emitted", cls |-> cls, raw |-> raw,
              box |-> b, clipped |-> clipped,
              cx |-> cx, cy |-> cy, nw |-> nw, nh |-> nh]

\* Bounds checking and clipping, coordinate conversion, validation: the locals
\* at the point where the function either returns None or formats its output.
Geometry(cls, raw, W, H) ==
    LET clipped == OutOfBounds(raw, W, H)
        b  == IF clipped THEN Clip(raw, W, H) ELSE raw
    IN  IF clipped /\ TooSmall(b.w, b.h)
        THEN Rejected("too_small_after_clip", cls, raw, b, clipped)
        ELSE LET cx == CenterX(b, W)
                 cy == CenterY(b, H)
                 nw == NormW(b, W)
                 nh == NormH(b, H)
             IN  IF ~Valid(cx, cy, nw, nh)
                 THEN [Rejected("invalid_range", cls, raw, b, clipped)
                         EXCEPT !.cx = cx, !.cy = cy, !.nw = nw, !.nh = nh]
                 ELSE [ret |-> "", stage |-> "emitted", cls |-> cls, raw |-> raw,
                       box |-> b, clipped |-> clipped,
                       cx |-> cx, cy |-> cy, nw |-> nw, nh |-> nh]

\* convert_visdrone_annotation(line, img_width, img_height): its locals at the
\* return; ret is the returned value, NoneVal or the YOLO line.
ConvertVisdroneAnnotation(ln, W, H) ==
    LET parts == Parts(ln)
    IN  IF Len(parts) < 8
        THEN Rejected("too_few_fields", 0, ZeroBox, ZeroBox, FALSE)
        ELSE IF ~FieldsParse(parts)
        THEN Rejected("malformed", 0, ZeroBox, ZeroBox, FALSE)
        ELSE
        LET raw == [x |-> ParseInt(parts[1]), y |-> ParseInt(parts[2]),
                    w |-> ParseInt(parts[3]), h |-> ParseInt(parts[4])]
            visdrone_class == ParseInt(parts[6])
        IN  IF ~ClassIsMapped(visdrone_class)
            THEN Rejected("unmapped_class", visdrone_class, raw, raw, FALSE)
            ELSE IF TooSmall(raw.w, raw.h)
            THEN Rejected("too_small", visdrone_class, raw, raw, FALSE)
            ELSE
            LET g == Geometry(visdrone_class, raw, W, H)
            IN  IF g.stage # "emitted" THEN g
                ELSE [g EXCEPT !.ret =
                        FormatRecord(VISDRONE_TO_SNIPERSCOPE[visdrone_class],
                                     g.cx, g.cy, g.nw, g.nh)]

\* The value the function returns.
Convert(ln, W, H) == ConvertVisdroneAnnotation(ln, W, H).ret

(***************************************************************************)
(* SpecConv: one call of convert_visdrone_annotation                       *)
(***************************************************************************)
\* The end of a line of a text file.
Newline == <<"\n">>

RECURSIVE Join(_, _)
Join(fields, sep) ==
    IF Len(fields) = 1 THEN fields[1]
    ELSE fields[1] \o <<sep>> \o Join(Tail(fields), sep)

\* An 8-field VisDrone line "x,y,w,h,score,class,truncation,occlusion" with
\* score 1, truncation 0 and occlusion 0, as an annotation file spells it.
MkLine(x, y, w, h, cls) ==
    Join(<<IntChars(x), IntChars(y), IntChars(w), IntChars(h), <<"1">>,
           IntChars(cls), <<"0">>, <<"0">>>>, ",")

\* Boxes around the image origin and the minimum size, and the boxes of the
\* documented examples (1280x720 images).
BoxXs == (-Slack..Slack) \cup {100, 1270}
BoxYs == (-Slack..Slack) \cup {200, 700}
BoxWs == ((MIN_BOX_SIZE - Slack)..(MIN_BOX_SIZE + Slack)) \cup {0, 50}
BoxHs == ((MIN_BOX_SIZE - Slack)..(MIN_BOX_SIZE + Slack)) \cup {50, 100}
ClassIds == -1..MaxClass

ImageSizes ==
    {<<1, 1>>, <<1280, 720>>} \cup
    {<<MIN_BOX_SIZE + i, MIN_BOX_SIZE + Slack - i>> : i \in 0..Slack}

BoxLines ==
    {MkLine(x, y, w, h, c) :
        x \in BoxXs, y \in BoxYs, w \in BoxWs, h \in BoxHs, c \in ClassIds}

\* The eight fields of a line, before they are joined by commas.
Fields(x, y, w, h, cls) ==
    <<IntChars(x), IntChars(y), IntChars(w), IntChars(h), <<"1">>,
      IntChars(cls), <<"0">>, <<"0">>>>

\* The fields of a pedestrian, of a car that overflows a 1280x720 image, of a
\* bicycle (no target class) and of a car under the minimum size.
BaseRecords ==
    {Fields(100, 200, 50, 100, 1), Fields(1270, 700, 50, 50, 4),
     Fields(100, 200, 50, 100, 3), Fields(100, 200, MIN_BOX_SIZE - 1, 50, 4)}

\* Texts int() raises ValueError on: "", "abc", "1.5", "-", "1 0".
JunkTokens ==
    {<<>>, <<"a", "b", "c">>, <<"1", ".", "5">>, <<"-">>, <<"1", " ", "0">>}

\* Texts int() reads as 50, 7 or -5: " 50 ", "+50", "5_0", "7", "-5".
IntegerTokens ==
    {<<" ", "5", "0", " ">>, <<"+", "5", "0">>, <<"5", "_", "0">>, <<"7">>,
     <<"-", "5">>}

Tokens == JunkTokens \cup IntegerTokens

\* Lines off the regular form: one field replaced by a token, fewer than
\* eight fields (the empty line is the case of no field text at all), one or
\* two fields too many; with and without the newline the file iterator
\* leaves at the end of a line.
VariantLines ==
    {Join([fs EXCEPT ![i] = t], ",") \o nl :
        fs \in BaseRecords, i \in 1..8, t \in Tokens, nl \in {<<>>, Newline}}
    \cup
    {IF k = 0 THEN nl ELSE Join(SubSeq(fs, 1, k), ",") \o nl :
        fs \in BaseRecords, k \in 0..7, nl \in {<<>>, Newline}}
    \cup
    {Join(fs \o extra, ",") \o Newline :
        fs \in BaseRecords, extra \in [1..1 -> Tokens] \cup [1..2 -> Tokens]}

Lines == BoxLines \cup VariantLines

Pending == Rejected("pending", 0, ZeroBox, ZeroBox, FALSE)

\* train() is not called.
TrainIdle ==
    /\ train_args = <<>>
    /\ training_config = <<>>
    /\ train_cfg = <<>>
    /\ train_kwargs = <<>>

\* export_to_coreml() is not called.
ExportIdle ==
    /\ quantize = ""
    /\ COREML_AVAILABLE = FALSE
    /\ exported_file = <<>>
    /\ output_path = <<>>
    /\ export_result = ""

\* create_sample_dataset() is not called.
SampleIdle ==
    /\ num_images = 0
    /\ pil_available = FALSE
    /\ counts = <<>>
    /\ image_id = 0
    /\ split_pos = 0
    /\ range_i = 0
    /\ dataset_files = {}

\* No other script of the pipeline is running.
ToolsIdle == TrainIdle /\ ExportIdle /\ SampleIdle

\* The run of main() is not started in SpecConv.
RunIdle ==
    /\ src = [root_exists |-> FALSE]
    /\ splits = <<>>
    /\ out = [root_exists |-> FALSE]
    /\ pc = "idle"
    /\ split_idx = 0
    /\ image_files = <<>>
    /\ img = 0
    /\ yolo_lines = <<>>
    /\ processed = 0
    /\ skipped = 0
    /\ returned = <<>>
    /\ total_processed = 0
    /\ total_skipped = 0
    /\ log = <<>>

InitConv ==
    /\ line \in Lines
    /\ \E sz \in ImageSizes : img_width = sz[1] /\ img_height = sz[2]
    /\ conv = Pending
    /\ ann = <<>>
    /\ first_run = <<>>
    /\ ToolsIdle
    /\ RunIdle

CallConvert ==
    /\ pc = "idle"
    /\ conv.stage = "pending"
    /\ conv' = ConvertVisdroneAnnotation(line, img_width, img_height)
    /\ UNCHANGED <<line, img_width, img_height, ann, first_run>>
    /\ UNCHANGED tool_vars
    /\ UNCHANGED run_vars

NextConv == CallConvert

SpecConv == InitConv /\ [][NextConv]_vars

(***************************************************************************)
(* The source tree of a run                                                *)
(***************************************************************************)
\* Split names the command line may give; each names the directory
\* VisDrone2019-DET-{split} under the source root.
SplitNames == {"train", "val"}

\* Annotation lines as process_split reads them from a file.
PedestrianLine == MkLine(100, 200, 50, 100, 1) \o Newline
OverflowCarLine == MkLine(1270, 700, 50, 50, 4) \o Newline
BicycleLine == MkLine(100, 200, 50, 100, 3) \o Newline
TinyCarLine == MkLine(100, 200, MIN_BOX_SIZE - 1, 50, 4) \o Newline
ShortLine == <<"1", "0", "0", ",", "2", "0", "0", ",", "5", "0", "\n">>
BlankLine == Newline

\* What an image file of the source tree can be: whether cv2.imread can decode
\* it, its size, and its sibling annotation file (a sequence of lines).
ImageCatalogue ==
    ("unreadable" :>
        [readable |-> FALSE, width |-> 0, height |-> 0,
         has_annotation |-> TRUE, annotation |-> <<PedestrianLine>>]) @@
    ("no_annotation" :>
        [readable |-> TRUE, width |-> 1280, height |-> 720,
         has_annotation |-> FALSE, annotation |-> <<>>]) @@
    ("empty" :>
        [readable |-> TRUE, width |-> 1280, height |-> 720,
         has_annotation |-> TRUE, annotation |-> <<>>]) @@
    ("all_rejected" :>
        [readable |-> TRUE, width |-> 1280, height |-> 720,
         has_annotation |-> TRUE,
         annotation |-> <<BicycleLine, TinyCarLine, ShortLine, BlankLine>>]) @@
    ("mixed" :>
        [readable |-> TRUE, width |-> 1280, height |-> 720,
         has_annotation |-> TRUE,
         annotation |-> <<PedestrianLine, ShortLine, BicycleLine, OverflowCarLine>>])

ImageKinds == DOMAIN ImageCatalogue

SeqsUpTo(S, n) == UNION {[1..k -> S] : k \in 0..n}

\* The orders in which a directory listing may return n files.
Listings(n) == {p \in [1..n -> 1..n] : \A i, j \in 1..n : p[i] = p[j] => i = j}

\* A split directory: images/ exists or not, the *.jpg files in it, the i-th
\* being img_i.jpg with sibling annotation img_i.txt, and the order in which
\* glob('*.jpg') returns them, which is any order but the same at every
\* listing of the unchanged directory.
SplitDirs ==
    {d \in [exists : BOOLEAN, images : SeqsUpTo(ImageKinds, MaxImages),
             listing : UNION {Listings(n) : n \in 0..MaxImages}] :
        /\ ~d.exists => d.images = <<>>
        /\ Len(d.listing) = Len(d.images)}

RECURSIVE SumOver(_, _)
SumOver(S, f) ==
    IF S = {} THEN 0
    ELSE LET e == CHOOSE e \in S : TRUE IN f[e] + SumOver(S \ {e}, f)

ImageCount(dirs) == SumOver(SplitNames, [s \in SplitNames |-> Len(dirs[s].images)])

SourceTrees ==
    {t \in [root_exists : BOOLEAN, dirs : [SplitNames -> SplitDirs]] :
        /\ ImageCount(t.dirs) <= MaxImages
        /\ ~t.root_exists => \A s \in SplitNames : ~t.dirs[s].exists}

SplitLists == UNION {[1..k -> SplitNames] : k \in 1..MaxSplits}

(***************************************************************************)
(* The output tree                                                         *)
(***************************************************************************)
EmptyOutput(root_exists) ==
    [root_exists |-> root_exists,   \* output_root is a directory
     dirs        |-> {},            \* splits with images/{split}, labels/{split}
     images      |-> <<>>,          \* <<split, i>> -> content of images/{split}/img_i.jpg
     labels      |-> <<>>,          \* <<split, i>> -> text of labels/{split}/img_i.txt
     manifest    |-> <<>>]          \* <<>> or <<content of dataset.yaml>>

\* Creating or overwriting the file k of a directory.
WriteFile(dir, k, content) == (k :> content) @@ dir

\* The text main() writes to dataset.yaml.
DatasetYaml ==
    [path  |-> "output_root.absolute()",
     train |-> "images/train",
     val   |-> "images/val",
     nc    |-> 4,
     names |-> (0 :> "person") @@ (2 :> "car") @@ (3 :> "truck")]

(***************************************************************************)
(* Spec: one run of main()                                                 *)
(***************************************************************************)
ConvIdle ==
    /\ line = <<>>
    /\ img_width = 0
    /\ img_height = 0
    /\ conv = Pending

Init ==
    /\ src \in SourceTrees
    /\ splits \in SplitLists
    /\ \E e \in BOOLEAN : out = EmptyOutput(e)
    /\ pc = "main_loop"
    /\ split_idx = 1
    /\ image_files = <<>>
    /\ img = 0
    /\ yolo_lines = <<>>
    /\ processed = 0
    /\ skipped = 0
    /\ returned = <<>>
    /\ total_processed = 0
    /\ total_skipped = 0
    /\ log = <<>>
    /\ ann = <<>>
    /\ first_run = <<>>
    /\ ToolsIdle
    /\ ConvIdle

split == splits[split_idx]

Logged(outcome) ==
    Append(log, [visit |-> split_idx, split |-> split, image |-> img,
                 outcome |-> outcome])

\* A missing split directory treated as an error that ends the run.
SplitMissingAborts ==
    /\ pc = "main_loop"
    /\ split_idx <= Len(splits)
    /\ ~src.dirs[split].exists
    /\ pc' = "crashed"
    /\ UNCHANGED <<src, splits, out, split_idx, image_files, img, yolo_lines,
                   processed, skipped, returned, total_processed, total_skipped,
                   log>>
    /\ UNCHANGED conv_vars
    /\ UNCHANGED <<ann, first_run>>
    /\ UNCHANGED tool_vars

\* process_split, images_dir missing: return 0, 0; main adds the pair to the
\* totals and goes to the next split.
SplitMissing ==
    /\ pc = "main_loop"
    /\ split_idx <= Len(splits)
    /\ ~src.dirs[split].exists
    /\ returned' = Append(returned, <<0, 0>>)
    /\ total_processed' = total_processed + 0
    /\ total_skipped' = total_skipped + 0
    /\ split_idx' = split_idx + 1
    /\ UNCHANGED <<src, splits, out, pc, image_files, img, yolo_lines,
                   processed, skipped, log>>
    /\ UNCHANGED conv_vars
    /\ UNCHANGED <<ann, first_run>>
    /\ UNCHANGED tool_vars

\* The output directories made by a mkdir that refuses an existing directory.
SplitBeginNoExistOk ==
    /\ pc = "main_loop"
    /\ split_idx <= Len(splits)
    /\ src.dirs[split].exists
    /\ IF split \in out.dirs
       THEN /\ pc' = "crashed"
            /\ UNCHANGED <<out, image_files, processed, skipped>>
       ELSE /\ out' = [out EXCEPT !.root_exists = TRUE, !.dirs = @ \cup {split}]
            /\ image_files' = src.dirs[split].listing
            /\ processed' = 0
            /\ skipped' = 0
            /\ pc' = "image_loop"
    /\ UNCHANGED <<src, splits, split_idx, img, yolo_lines, returned,
                   total_processed, total_skipped, log>>
    /\ UNCHANGED conv_vars
    /\ UNCHANGED <<ann, first_run>>
    /\ UNCHANGED tool_vars

\* process_split, images_dir present: create the output directories (and the
\* output root with them), list the images, zero the counters.
SplitBegin ==
    /\ pc = "main_loop"
    /\ split_idx <= Len(splits)
    /\ src.dirs[split].exists
    /\ out' = [out EXCEPT !.root_exists = TRUE, !.dirs = @ \cup {split}]
    /\ image_files' = src.dirs[split].listing
    /\ processed' = 0
    /\ skipped' = 0
    /\ pc' = "image_loop"
    /\ UNCHANGED <<src, splits, split_idx, img, yolo_lines, returned,
                   total_processed, total_skipped, log>>
    /\ UNCHANGED conv_vars
    /\ UNCHANGED <<ann, first_run>>
    /\ UNCHANGED tool_vars

\* The kind of the image being handled.
Image(i) == ImageCatalogue[src.dirs[split].images[i]]

\* An undecodable image ends the loop over the images of the split.
ReadImageBreaks ==
    /\ pc = "image_loop"
    /\ image_files # <<>>
    /\ LET i == Head(image_files)
       IN  IF ~Image(i).readable
           THEN /\ skipped' = skipped + 1
                /\ log' = Append(log, [visit |-> split_idx, split |-> split,
                                       image |-> i, outcome |-> "skipped"])
                /\ image_files' = <<>>
                /\ UNCHANGED <<img, img_width, img_height, pc>>
           ELSE /\ img' = i
                /\ img_height' = Image(i).height
                /\ img_width' = Image(i).width
                /\ image_files' = Tail(image_files)
                /\ pc' = "find_annotation"
                /\ UNCHANGED <<skipped, log>>
    /\ UNCHANGED <<src, splits, out, split_idx, yolo_lines, processed, returned,
                   total_processed, total_skipped, line, conv, ann, first_run>>
    /\ UNCHANGED tool_vars

\* Loop head and cv2.imread: an undecodable image is skipped.
ReadImage ==
    /\ pc = "image_loop"
    /\ image_files # <<>>
    /\ image_files' = Tail(image_files)
    /\ LET i == Head(image_files)
       IN  IF ~Image(i).readable
           THEN /\ skipped' = skipped + 1
                /\ log' = Append(log, [visit |-> split_idx, split |-> split,
                                       image |-> i, outcome |-> "skipped"])
                /\ UNCHANGED <<img, img_width, img_height, pc>>
           ELSE /\ img' = i
                /\ img_height' = Image(i).height
                /\ img_width' = Image(i).width
                /\ pc' = "find_annotation"
                /\ UNCHANGED <<skipped, log>>
    /\ UNCHANGED <<src, splits, out, split_idx, yolo_lines, processed, returned,
                   total_processed, total_skipped, line, conv, ann, first_run>>
    /\ UNCHANGED tool_vars

\* The annotation file opened without the exists() test: FileNotFoundError.
FindAnnotationUnchecked ==
    /\ pc = "find_annotation"
    /\ IF ~Image(img).has_annotation
       THEN /\ pc' = "crashed"
       ELSE /\ pc' = "convert"
    /\ UNCHANGED <<src, splits, out, split_idx, image_files, img, yolo_lines,
                   processed, skipped, returned, total_processed, total_skipped,
                   log>>
    /\ UNCHANGED conv_vars
    /\ UNCHANGED <<ann, first_run>>
    /\ UNCHANGED tool_vars

\* An image without annotation file left without counting it.
FindAnnotationUncounted ==
    /\ pc = "find_annotation"
    /\ IF ~Image(img).has_annotation
       THEN /\ pc' = "image_loop"
       ELSE /\ pc' = "convert"
    /\ UNCHANGED <<src, splits, out, split_idx, image_files, img, yolo_lines,
                   processed, skipped, returned, total_processed, total_skipped,
                   log>>
    /\ UNCHANGED conv_vars
    /\ UNCHANGED <<ann, first_run>>
    /\ UNCHANGED tool_vars

\* ann_path.exists(): an image without annotation file is skipped.
FindAnnotation ==
    /\ pc = "find_annotation"
    /\ IF ~Image(img).has_annotation
       THEN /\ skipped' = skipped + 1
            /\ log' = Logged("skipped")
            /\ pc' = "image_loop"
       ELSE /\ pc' = "convert"
            /\ UNCHANGED <<skipped, log>>
    /\ UNCHANGED <<src, splits, out, split_idx, image_files, img, yolo_lines,
                   processed, returned, total_processed, total_skipped>>
    /\ UNCHANGED conv_vars
    /\ UNCHANGED <<ann, first_run>>
    /\ UNCHANGED tool_vars

\* The loop over the lines ended by the first line with too few fields or
\* with a field that int() refuses.
RECURSIVE ConvertLinesUntilMalformed(_, _, _)
ConvertLinesUntilMalformed(lines, W, H) ==
    IF lines = <<>> THEN <<>>
    ELSE LET c == ConvertVisdroneAnnotation(Head(lines), W, H)
         IN  IF c.stage \in {"too_few_fields", "malformed"} THEN <<>>
             ELSE IF c.ret # NoneVal /\ c.ret # ""
             THEN <<c.ret>> \o ConvertLinesUntilMalformed(Tail(lines), W, H)
             ELSE ConvertLinesUntilMalformed(Tail(lines), W, H)

\* The records of the lines of a file that convert, in file order.
RECURSIVE ConvertLines(_, _, _)
ConvertLines(lines, W, H) ==
    IF lines = <<>> THEN <<>>
    ELSE LET yolo_line == Convert(Head(lines), W, H)
             rest == ConvertLines(Tail(lines), W, H)
         IN  IF yolo_line # NoneVal /\ yolo_line # ""
             THEN <<yolo_line>> \o rest
             ELSE rest

\* The image and its label saved whether or not a record is left.
ConvertAnnotationsAlwaysSave ==
    /\ pc = "convert"
    /\ yolo_lines' = ConvertLines(Image(img).annotation, img_width, img_height)
    /\ pc' = "copy_image"
    /\ UNCHANGED <<src, splits, out, split_idx, image_files, img, processed,
                   skipped, returned, total_processed, total_skipped, log>>
    /\ UNCHANGED conv_vars
    /\ UNCHANGED <<ann, first_run>>
    /\ UNCHANGED tool_vars

\* The image copied before the records are looked at.
ConvertAnnotationsCopyFirst ==
    /\ pc = "convert"
    /\ out' = [out EXCEPT !.images =
                 WriteFile(@, <<split, img>>, src.dirs[split].images[img])]
    /\ LET lines == ConvertLines(Image(img).annotation, img_width, img_height)
       IN  /\ yolo_lines' = lines
           /\ IF lines # <<>>
              THEN /\ pc' = "copy_image"
                   /\ UNCHANGED <<skipped, log>>
              ELSE /\ skipped' = skipped + 1
                   /\ log' = Logged("skipped")
                   /\ pc' = "image_loop"
    /\ UNCHANGED <<src, splits, split_idx, image_files, img, processed,
                   returned, total_processed, total_skipped>>
    /\ UNCHANGED conv_vars
    /\ UNCHANGED <<ann, first_run>>
    /\ UNCHANGED tool_vars

\* The records of an image added to those of the images handled before it.
ConvertAnnotationsAccumulate ==
    /\ pc = "convert"
    /\ LET lines == yolo_lines \o
                    ConvertLines(Image(img).annotation, img_width, img_height)
       IN  /\ yolo_lines' = lines
           /\ IF lines # <<>>
              THEN /\ pc' = "copy_image"
                   /\ UNCHANGED <<skipped, log>>
              ELSE /\ skipped' = skipped + 1
                   /\ log' = Logged("skipped")
                   /\ pc' = "image_loop"
    /\ UNCHANGED <<src, splits, out, split_idx, image_files, img, processed,
                   returned, total_processed, total_skipped>>
    /\ UNCHANGED conv_vars
    /\ UNCHANGED <<ann, first_run>>
    /\ UNCHANGED tool_vars

\* yolo_lines = []; read the annotation file, convert its lines; with no record
\* left the image is skipped without any write.
ConvertAnnotations ==
    /\ pc = "convert"
    /\ LET lines == ConvertLines(Image(img).annotation, img_width, img_height)
       IN  /\ yolo_lines' = lines
           /\ IF lines # <<>>
              THEN /\ pc' = "copy_image"
                   /\ UNCHANGED <<skipped, log>>
              ELSE /\ skipped' = skipped + 1
                   /\ log' = Logged("skipped")
                   /\ pc' = "image_loop"
    /\ UNCHANGED <<src, splits, out, split_idx, image_files, img, processed,
                   returned, total_processed, total_skipped>>
    /\ UNCHANGED conv_vars
    /\ UNCHANGED <<ann, first_run>>
    /\ UNCHANGED tool_vars

\* The records written one after the other, separated by spaces.
RECURSIVE JoinRecordsSpace(_)
JoinRecordsSpace(records) ==
    IF records = <<>> THEN ""
    ELSE IF Len(records) = 1 THEN records[1]
    ELSE records[1] \o " " \o JoinRecordsSpace(Tail(records))

\* '\n'.join(yolo_lines): a newline between two records, none at the end.
RECURSIVE JoinRecords(_)
JoinRecords(records) ==
    IF records = <<>> THEN ""
    ELSE IF Len(records) = 1 THEN records[1]
    ELSE records[1] \o "\n" \o JoinRecords(Tail(records))

\* The label file written in the step that is to copy the image.
CopyImageWritesLabel ==
    /\ pc = "copy_image"
    /\ out' = [out EXCEPT !.labels =
                 WriteFile(@, <<split, img>>, JoinRecords(yolo_lines))]
    /\ pc' = "write_label"
    /\ UNCHANGED <<src, splits, split_idx, image_files, img, yolo_lines,
                   processed, skipped, returned, total_processed, total_skipped,
                   log>>
    /\ UNCHANGED conv_vars
    /\ UNCHANGED <<ann, first_run>>
    /\ UNCHANGED tool_vars

\* shutil.copy(img_path, output_images / img_path.name)
CopyImage ==
    /\ pc = "copy_image"
    /\ out' = [out EXCEPT !.images =
                 WriteFile(@, <<split, img>>, src.dirs[split].images[img])]
    /\ pc' = "write_label"
    /\ UNCHANGED <<src, splits, split_idx, image_files, img, yolo_lines,
                   processed, skipped, returned, total_processed, total_skipped,
                   log>>
    /\ UNCHANGED conv_vars
    /\ UNCHANGED <<ann, first_run>>
    /\ UNCHANGED tool_vars

\* with open(output_labels / f"{img_path.stem}.txt", 'w') as f:
\*     f.write('\n'.join(yolo_lines))
WriteLabel ==
    /\ pc = "write_label"
    /\ out' = [out EXCEPT !.labels =
                 WriteFile(@, <<split, img>>, JoinRecords(yolo_lines))]
    /\ pc' = "count"
    /\ UNCHANGED <<src, splits, split_idx, image_files, img, yolo_lines,
                   processed, skipped, returned, total_processed, total_skipped,
                   log>>
    /\ UNCHANGED conv_vars
    /\ UNCHANGED <<ann, first_run>>
    /\ UNCHANGED tool_vars

\* processed += 1
CountProcessed ==
    /\ pc = "count"
    /\ processed' = processed + 1
    /\ log' = Logged("processed")
    /\ pc' = "image_loop"
    /\ UNCHANGED <<src, splits, out, split_idx, image_files, img, yolo_lines,
                   skipped, returned, total_processed, total_skipped>>
    /\ UNCHANGED conv_vars
    /\ UNCHANGED <<ann, first_run>>
    /\ UNCHANGED tool_vars

\* process_split returns; main adds the pair to the totals.
SplitReturn ==
    /\ pc = "image_loop"
    /\ image_files = <<>>
    /\ returned' = Append(returned, <<processed, skipped>>)
    /\ total_processed' = total_processed + processed
    /\ total_skipped' = total_skipped + skipped
    /\ split_idx' = split_idx + 1
    /\ pc' = "main_loop"
    /\ UNCHANGED <<src, splits, out, image_files, img, yolo_lines, processed,
                   skipped, log>>
    /\ UNCHANGED conv_vars
    /\ UNCHANGED <<ann, first_run>>
    /\ UNCHANGED tool_vars

\* After the last split: open(output_root / 'dataset.yaml', 'w') and write.
\* The open raises FileNotFoundError when output_root is not a directory,
\* which nothing catches.
WriteManifest ==
    /\ pc = "main_loop"
    /\ split_idx > Len(splits)
    /\ IF out.root_exists
       THEN /\ out' = [out EXCEPT !.manifest = <<DatasetYaml>>]
            /\ pc' = "done"
       ELSE /\ pc' = "crashed"
            /\ UNCHANGED out
    /\ UNCHANGED <<src, splits, split_idx, image_files, img, yolo_lines,
                   processed, skipped, returned, total_processed, total_skipped,
                   log>>
    /\ UNCHANGED conv_vars
    /\ UNCHANGED <<ann, first_run>>
    /\ UNCHANGED tool_vars

Next ==
    \/ SplitMissing
    \/ SplitBegin
    \/ ReadImage
    \/ FindAnnotation
    \/ ConvertAnnotations
    \/ CopyImage
    \/ WriteLabel
    \/ CountProcessed
    \/ SplitReturn
    \/ WriteManifest

Spec == Init /\ [][Next]_vars

(***************************************************************************)
(* SpecRerun: main() run a second time into the output of the first run    *)
(***************************************************************************)
\* The script is started again with the same arguments, on the source tree
\* as it was and the output tree as the first run left it; what the first
\* run left and reported is kept aside in first_run.
Rerun ==
    /\ pc \in {"done", "crashed"}
    /\ first_run = <<>>
    /\ first_run' = <<[out |-> out, ended |-> pc, returned |-> returned,
                       total_processed |-> total_processed,
                       total_skipped |-> total_skipped]>>
    /\ pc' = "main_loop"
    /\ split_idx' = 1
    /\ image_files' = <<>>
    /\ img' = 0
    /\ yolo_lines' = <<>>
    /\ processed' = 0
    /\ skipped' = 0
    /\ returned' = <<>>
    /\ total_processed' = 0
    /\ total_skipped' = 0
    /\ log' = <<>>
    /\ UNCHANGED <<src, splits, out, ann>>
    /\ UNCHANGED conv_vars
    /\ UNCHANGED tool_vars

\* The first run starts as a run of Spec does.  Both runs list a directory in
\* the same order, whichever it is (the order is stored with the directory),
\* so one order per directory is explored here, the order of the file names.
InitRerun ==
    /\ Init
    /\ \A s \in SplitNames :
          src.dirs[s].listing = [i \in 1..Len(src.dirs[s].images) |-> i]

NextRerun ==
    \/ Next
    \/ Rerun

SpecRerun == InitRerun /\ [][NextRerun]_vars

(***************************************************************************)
(* train.py: train(), how the training arguments are put together          *)
(***************************************************************************)
\* Python values of the kinds train() handles: None, an int, a str.
PyNone == [t |-> "none", i |-> 0, s |-> ""]
PyInt(n) == [t |-> "int", i |-> n, s |-> ""]
PyStr(x) == [t |-> "str", i |-> 0, s |-> x]

\* bool(v), as the test "if v:" takes it: None, 0 and "" are false.
Truthy(v) == (v.t = "int" /\ v.i # 0) \/ (v.t = "str" /\ v.s # "")

\* An empty dict; d[k] = v; d.setdefault(k, v); d.get(k, v).
EmptyDict == <<>>
SetItem(d, k, v) == (k :> v) @@ d
SetDefault(d, k, v) == IF k \in DOMAIN d THEN d ELSE (k :> v) @@ d
Get(d, k, v) == IF k \in DOMAIN d THEN d[k] ELSE v

\* The value of train_cfg: a dict, or None (yaml.safe_load of an empty file).
Dict(d) == [none |-> FALSE, items |-> d]
NoneDict == [none |-> TRUE, items |-> EmptyDict]

\* The parameters of train() that override the training config.
TrainParams == {"epochs", "batch", "device", "project", "name"}

\* Values a caller may pass: None (the default of each parameter), values
\* that are false under "if v:" (0, "") and values that are true.  The
\* command line passes device as a str; a call of train() may pass an int.
ArgValues ==
    [epochs  |-> {PyNone, PyInt(0), PyInt(50)},
     batch   |-> {PyNone, PyInt(0), PyInt(8)},
     device  |-> {PyNone, PyStr(""), PyStr("cpu"), PyInt(0)},
     project |-> {PyNone, PyStr(""), PyStr("runs")},
     name    |-> {PyNone, PyStr(""), PyStr("exp1")}]

TrainArgs ==
    [epochs : ArgValues.epochs, batch : ArgValues.batch,
     device : ArgValues.device, project : ArgValues.project,
     name : ArgValues.name]

\* What a training config file gives for a key it has.
ConfigValue ==
    [epochs |-> PyInt(30), batch |-> PyInt(4), device |-> PyStr("mps"),
     project |-> PyStr("cfg_project"), name |-> PyStr("cfg_name")]

\* The file at the training_config path: missing, empty (safe_load returns
\* None), or a mapping with any of the keys.
ConfigFiles ==
    {[exists |-> FALSE, content |-> NoneDict],
     [exists |-> TRUE, content |-> NoneDict]} \cup
    {[exists |-> TRUE, content |-> Dict([k \in K |-> ConfigValue[k]])] :
        K \in SUBSET TrainParams}

\* The values of the setdefault() calls; name carries the time of the call.
TrainDefault ==
    [epochs |-> PyInt(100), batch |-> PyInt(16), device |-> PyInt(0),
     project |-> PyStr("sniperscope"), name |-> PyStr("detector_{now}")]

\* The defaults of the train_cfg.get() calls in the model.train() call.
GetDefault ==
    [epochs |-> PyInt(100), batch |-> PyInt(16), device |-> PyInt(0),
     project |-> PyStr("sniperscope"), name |-> PyStr("detector")]

\* prepare_visdrone.py is not running.
PrepareIdle ==
    /\ ConvIdle
    /\ src = [root_exists |-> FALSE]
    /\ splits = <<>>
    /\ out = [root_exists |-> FALSE]
    /\ split_idx = 0
    /\ image_files = <<>>
    /\ img = 0
    /\ yolo_lines = <<>>
    /\ processed = 0
    /\ skipped = 0
    /\ returned = <<>>
    /\ total_processed = 0
    /\ total_skipped = 0
    /\ log = <<>>
    /\ ann = <<>>
    /\ first_run = <<>>

\* train(data_config, training_config, ..., epochs, batch, device, project,
\* name) is entered: train_cfg = {}.
InitTrain ==
    /\ train_args \in TrainArgs
    /\ training_config \in ConfigFiles
    /\ train_cfg = Dict(EmptyDict)
    /\ train_kwargs = <<>>
    /\ pc = "train_load"
    /\ PrepareIdle
    /\ ExportIdle
    /\ SampleIdle

\* if training_config and Path(training_config).exists():
\*     train_cfg = load_config(training_config)
LoadConfig ==
    /\ pc = "train_load"
    /\ train_cfg' = IF training_config.exists THEN training_config.content
                    ELSE train_cfg
    /\ pc' = "train_overrides"
    /\ UNCHANGED <<train_args, training_config, train_kwargs>>
    /\ UNCHANGED not_train_vars

\* One override: "if v: train_cfg[k] = v".
Override(d, k, v) == IF Truthy(v) THEN SetItem(d, k, v) ELSE d

\* The five overrides, in the order of the code.
Overridden(d, a) ==
    Override(Override(Override(Override(Override(d,
        "epochs", a.epochs), "batch", a.batch), "device", a.device),
        "project", a.project), "name", a.name)

\* The overrides; item assignment on None raises TypeError.
ApplyOverrides ==
    /\ pc = "train_overrides"
    /\ IF train_cfg.none
       THEN /\ pc' = IF \E k \in TrainParams : Truthy(train_args[k])
                     THEN "train_crashed" ELSE "train_defaults"
            /\ UNCHANGED train_cfg
       ELSE /\ train_cfg' = Dict(Overridden(train_cfg.items, train_args))
            /\ pc' = "train_defaults"
    /\ UNCHANGED <<train_args, training_config, train_kwargs>>
    /\ UNCHANGED not_train_vars

\* The setdefault() calls for the five parameters; None has no setdefault
\* (AttributeError).
SetDefaults ==
    /\ pc = "train_defaults"
    /\ IF train_cfg.none
       THEN /\ pc' = "train_crashed"
            /\ UNCHANGED train_cfg
       ELSE /\ train_cfg' =
                 Dict(SetDefault(SetDefault(SetDefault(SetDefault(SetDefault(
                     train_cfg.items,
                     "epochs", TrainDefault.epochs),
                     "batch", TrainDefault.batch),
                     "device", TrainDefault.device),
                     "project", TrainDefault.project),
                     "name", TrainDefault.name))
            /\ pc' = "train_call"
    /\ UNCHANGED <<train_args, training_config, train_kwargs>>
    /\ UNCHANGED not_train_vars

\* model.train(epochs=train_cfg.get('epochs', 100), ...)
CallTrain ==
    /\ pc = "train_call"
    /\ train_kwargs' =
          [k \in TrainParams |-> Get(train_cfg.items, k, GetDefault[k])]
    /\ pc' = "train_called"
    /\ UNCHANGED <<train_args, training_config, train_cfg>>
    /\ UNCHANGED not_train_vars

NextTrain ==
    \/ LoadConfig
    \/ ApplyOverrides
    \/ SetDefaults
    \/ CallTrain

SpecTrain == InitTrain /\ [][NextTrain]_vars

(***************************************************************************)
(* export_coreml.py: export_to_coreml()                                    *)
(***************************************************************************)
\* The --quantize choices.
QuantizeChoices == {"fp32", "fp16", "int8"}

\* quantize.upper()
Upper(q) == CASE q = "fp32" -> "FP32" [] q = "fp16" -> "FP16"
              [] q = "int8" -> "INT8" [] OTHER -> q

\* The two Core ML file kinds.
Suffixes == {".mlpackage", ".mlmodel"}

\* f'SniperScope_Detector_{quantize.upper()}.mlpackage' (or .mlmodel)
FinalName(q, suffix) == "SniperScope_Detector_" \o Upper(q) \o suffix

FinalNames == {FinalName(q, x) : q \in QuantizeChoices, x \in Suffixes}

\* No file of that name.
Absent == [weights |-> "absent"]

\* A stored model; weights is the precision of the weights stored in it.
Model(w) == [weights |-> w]

\* What earlier calls may have left in the output directory: any of the
\* final names, each holding what its name says.
OutputDirs ==
    {[n \in FinalNames |->
         IF n \in K
         THEN Model(CHOOSE q \in QuantizeChoices :
                        \E x \in Suffixes : n = FinalName(q, x))
         ELSE Absent] : K \in SUBSET FinalNames}

\* export_to_coreml(model_path, output_dir, quantize=...) is entered.
InitExport ==
    /\ quantize \in QuantizeChoices
    /\ COREML_AVAILABLE \in BOOLEAN
    /\ exported_file = <<>>
    /\ output_path \in OutputDirs
    /\ export_result = "running"
    /\ pc = "export_start"
    /\ PrepareIdle
    /\ TrainIdle
    /\ SampleIdle

\* model.export(**export_args) with half=True only for fp16, then the search
\* for the exported file: at the returned path or next to the model as
\* .mlpackage or .mlmodel; return None when there is none.
ExportModel ==
    /\ pc = "export_start"
    /\ \/ \E x \in Suffixes :
             /\ exported_file' =
                   [dir |-> "model_dir", name |-> "model" \o x, suffix |-> x,
                    model |-> Model(IF quantize = "fp16" THEN "fp16"
                                    ELSE "fp32")]
             /\ pc' = "export_quantize"
             /\ UNCHANGED export_result
       \/ /\ export_result' = "None"
          /\ pc' = "export_returned"
          /\ UNCHANGED exported_file
    /\ UNCHANGED <<quantize, COREML_AVAILABLE, output_path>>
    /\ UNCHANGED not_export_vars

\* if COREML_AVAILABLE and quantize == 'int8': load, quantize_weights(nbits=8),
\* save to SniperScope_Detector_INT8.mlpackage; any exception is caught and
\* reported as a warning.
QuantizeInt8 ==
    /\ pc = "export_quantize"
    /\ IF COREML_AVAILABLE /\ quantize = "int8"
       THEN \/ /\ output_path' =
                    [output_path EXCEPT
                        ![FinalName("int8", ".mlpackage")] = Model("int8")]
               /\ exported_file' =
                    [dir |-> "output_dir",
                     name |-> FinalName("int8", ".mlpackage"),
                     suffix |-> ".mlpackage", model |-> Model("int8")]
            \/ UNCHANGED <<output_path, exported_file>>
       ELSE UNCHANGED <<output_path, exported_file>>
    /\ pc' = "export_copy"
    /\ UNCHANGED <<quantize, COREML_AVAILABLE, export_result>>
    /\ UNCHANGED not_export_vars

\* The final name by the suffix of exported_file; unless exported_file is
\* the final path already, whatever is at the final path is removed and
\* exported_file copied there; return str(final_path).
CopyFinal ==
    /\ pc = "export_copy"
    /\ LET final_name == FinalName(quantize, exported_file.suffix)
       IN  /\ output_path' =
                 IF exported_file.dir = "output_dir"
                    /\ exported_file.name = final_name
                 THEN output_path
                 ELSE [output_path EXCEPT ![final_name] = exported_file.model]
           /\ export_result' = final_name
    /\ pc' = "export_returned"
    /\ UNCHANGED <<quantize, COREML_AVAILABLE, exported_file>>
    /\ UNCHANGED not_export_vars

NextExport ==
    \/ ExportModel
    \/ QuantizeInt8
    \/ CopyFinal

SpecExport == InitExport /\ [][NextExport]_vars

(***************************************************************************)
(* create_sample_dataset.py: create_sample_dataset()                       *)
(***************************************************************************)
MaxSamples == 12

\* The keys of counts, in insertion order.
SampleSplits == <<"train", "val", "test">>

\* The largest power of two not above x (x >= 1).
RECURSIVE Pow2Below(_)
Pow2Below(x) == IF x < 2 THEN 1 ELSE 2 * Pow2Below(x \div 2)

\* int(n * 0.7) for n >= 0.  The double 0.7 is 0.4 * 2^-53 below 7/10, so
\* the product lies below 7n/10 by 0.4n * 2^-53.  When 7n/10 is no integer
\* the truncation does not see that.  When n = 10m the exact product is
\* 7m - 4m * 2^-53; with p the power of two of 7m's binade the doubles below
\* 7m are p * 2^-52 apart, and the product rounds to 7m unless the deficit
\* exceeds half of that (4m > p), when it rounds to the double below 7m and
\* truncates to 7m - 1 (n = 90 gives 62).
TruncTimes07(n) ==
    LET m == n \div 10
    IN  IF n % 10 = 0 /\ m >= 1 /\ 4 * m > Pow2Below(7 * m)
        THEN 7 * m - 1
        ELSE (7 * n) \div 10

\* int(n * 0.2) for n >= 0.  The double 0.2 lies above 2/10, so the product
\* is never below 2n/10 and the truncation is that of the exact product.
TruncTimes02(n) == (2 * n) \div 10

\* train_count, val_count, test_count and the dict counts.
Counts(n) ==
    LET train_count == TruncTimes07(n)
        val_count == TruncTimes02(n)
        test_count == n - train_count - val_count
    IN  [train |-> train_count, val |-> val_count, test |-> test_count]

\* format(n, '06d'): zeros in front up to six characters.
RECURSIVE ZeroPad(_, _)
ZeroPad(str, width) ==
    IF Len(str) >= width THEN str ELSE ZeroPad("0" \o str, width)

\* f'sample_{image_id:06d}.jpg' and f'sample_{image_id:06d}.txt'
SampleName(id, ext) == "sample_" \o ZeroPad(NatStr(id), 6) \o ext

\* output_path / dir / split / name
SampleFile(dir, s, name) == [dir |-> dir, split |-> s, name |-> name]

\* The values of num_images: small ones, and the sizes the documentation
\* names or where the float product rounds down.
SampleSizes == 0..MaxSamples \cup {90, 100}

\* create_sample_dataset(output_dir, num_images) is entered with a fresh
\* output directory.
InitSample ==
    /\ num_images \in SampleSizes
    /\ pil_available \in BOOLEAN
    /\ counts = <<>>
    /\ image_id = 0
    /\ split_pos = 0
    /\ range_i = 0
    /\ dataset_files = {}
    /\ pc = "sample_start"
    /\ PrepareIdle
    /\ TrainIdle
    /\ ExportIdle

\* The split sizes and image_id = 0, in create_sample_dataset or, when the
\* imports fail, in create_placeholder_files.
SampleCounts ==
    /\ pc = "sample_start"
    /\ counts' = Counts(num_images)
    /\ image_id' = 0
    /\ split_pos' = 1
    /\ range_i' = 0
    /\ pc' = "sample_loop"
    /\ UNCHANGED <<num_images, pil_available, dataset_files>>
    /\ UNCHANGED not_sample_vars

\* img.save(img_path) or img_path.touch() for the next i of range(count).
SaveSampleImage ==
    /\ pc = "sample_loop"
    /\ split_pos <= Len(SampleSplits)
    /\ range_i < counts[SampleSplits[split_pos]]
    /\ dataset_files' = dataset_files \cup
          {SampleFile("images", SampleSplits[split_pos],
                      SampleName(image_id, ".jpg"))}
    /\ pc' = "sample_label"
    /\ UNCHANGED <<num_images, pil_available, counts, image_id, split_pos,
                   range_i>>
    /\ UNCHANGED not_sample_vars

\* The label file of the same number, then image_id += 1.
WriteSampleLabel ==
    /\ pc = "sample_label"
    /\ dataset_files' = dataset_files \cup
          {SampleFile("labels", SampleSplits[split_pos],
                      SampleName(image_id, ".txt"))}
    /\ image_id' = image_id + 1
    /\ range_i' = range_i + 1
    /\ pc' = "sample_loop"
    /\ UNCHANGED <<num_images, pil_available, counts, split_pos>>
    /\ UNCHANGED not_sample_vars

\* A sample loop that numbers the samples of each split from zero.
NextSampleSplitRestartsIds ==
    /\ pc = "sample_loop"
    /\ split_pos <= Len(SampleSplits)
    /\ range_i >= counts[SampleSplits[split_pos]]
    /\ split_pos' = split_pos + 1
    /\ range_i' = 0
    /\ image_id' = 0
    /\ UNCHANGED <<num_images, pil_available, counts, dataset_files, pc>>
    /\ UNCHANGED not_sample_vars

\* range(count) is exhausted: the next item of counts.items().
NextSampleSplit ==
    /\ pc = "sample_loop"
    /\ split_pos <= Len(SampleSplits)
    /\ range_i >= counts[SampleSplits[split_pos]]
    /\ split_pos' = split_pos + 1
    /\ range_i' = 0
    /\ UNCHANGED <<num_images, pil_available, counts, image_id, dataset_files,
                   pc>>
    /\ UNCHANGED not_sample_vars

\* After the loops: create_sample_dataset writes dataset.yaml,
\* create_placeholder_files only prints.
FinishSamples ==
    /\ pc = "sample_loop"
    /\ split_pos > Len(SampleSplits)
    /\ dataset_files' =
          IF pil_available
          THEN dataset_files \cup {SampleFile("", "", "dataset.yaml")}
          ELSE dataset_files
    /\ pc' = "sample_done"
    /\ UNCHANGED <<num_images, pil_available, counts, image_id, split_pos,
                   range_i>>
    /\ UNCHANGED not_sample_vars

NextSample ==
    \/ SampleCounts
    \/ SaveSampleImage
    \/ WriteSampleLabel
    \/ NextSampleSplit
    \/ FinishSamples

SpecSample == InitSample /\ [][NextSample]_vars

(***************************************************************************)
(* SpecFile: the lines of one annotation file read by process_split        *)
(***************************************************************************)
MaxFileLines == 3

\* A line whose first field is no integer, and a line with a ninth field.
JunkLine == <<"a", "b", "c">> \o Tail(Tail(Tail(PedestrianLine)))
NineFieldLine == MkLine(100, 200, 50, 100, 4) \o <<",", "7">> \o Newline

FileLines ==
    {PedestrianLine, OverflowCarLine, BicycleLine, ShortLine, JunkLine,
     BlankLine, NineFieldLine}

AnnotationFiles == SeqsUpTo(FileLines, MaxFileLines)

FileImageSizes == {<<1280, 720>>, <<640, 480>>}

\* The image has been read and its annotation file exists and is about to be
\* opened; no split of a run is modelled around it.
InitFile ==
    /\ ann \in AnnotationFiles
    /\ first_run = <<>>
    /\ ToolsIdle
    /\ \E sz \in FileImageSizes : img_width = sz[1] /\ img_height = sz[2]
    /\ line = <<>>
    /\ conv = Pending
    /\ pc = "open_file"
    /\ yolo_lines = <<>>
    /\ src = [root_exists |-> FALSE]
    /\ splits = <<>>
    /\ out = [root_exists |-> FALSE]
    /\ split_idx = 0
    /\ image_files = <<>>
    /\ img = 0
    /\ processed = 0
    /\ skipped = 0
    /\ returned = <<>>
    /\ total_processed = 0
    /\ total_skipped = 0
    /\ log = <<>>

\* for line in f: convert the line, keep the record when there is one.
ReadAnnotationFile ==
    /\ pc = "open_file"
    /\ yolo_lines' = ConvertLines(ann, img_width, img_height)
    /\ pc' = "file_read"
    /\ UNCHANGED <<src, splits, out, split_idx, image_files, img, processed,
                   skipped, returned, total_processed, total_skipped, log>>
    /\ UNCHANGED conv_vars
    /\ UNCHANGED <<ann, first_run>>
    /\ UNCHANGED tool_vars

NextFile == ReadAnnotationFile

SpecFile == InitFile /\ [][NextFile]_vars

(***************************************************************************)
(* Properties of convert_visdrone_annotation (checked under SpecConv)      *)
(***************************************************************************)
\* The call has returned.
Returned == conv.stage # "pending"
\* The call has returned a record.
Emitted == Returned /\ conv.ret # NoneVal
\* The call has returned, and the line had 8 integer fields to look at.
Parsed == Returned /\ conv.stage \notin {"too_few_fields", "malformed"}

DocLine ==
    <<"1", "0", "0", ",", "2", "0", "0", ",", "5", "0", ",", "1", "0", "0", ",",
      "1", ",", "1", ",", "0", ",", "0">>

OverflowLine ==
    <<"1", "2", "7", "0", ",", "7", "0", "0", ",", "5", "0", ",", "5", "0", ",",
      "1", ",", "4", ",", "0", ",", "0">>

\* C1: whenever convert_visdrone_annotation emits a record (image width and
\* height >= 1), 0 <= centerX <= 1, 0 <= centerY <= 1, 0 < width <= 1 and
\* 0 < height <= 1, for the values computed and for the values as the record
\* spells them with six decimals.
C1_NormalizedRange ==
    (Emitted /\ img_width >= 1 /\ img_height >= 1) =>
        /\ 0 <= conv.cx[1] /\ conv.cx[1] <= conv.cx[2]
        /\ 0 <= conv.cy[1] /\ conv.cy[1] <= conv.cy[2]
        /\ 0 < conv.nw[1] /\ conv.nw[1] <= conv.nw[2]
        /\ 0 < conv.nh[1] /\ conv.nh[1] <= conv.nh[2]
        /\ conv.cx[2] > 0 /\ conv.cy[2] > 0 /\ conv.nw[2] > 0 /\ conv.nh[2] > 0
        /\ \A v \in {conv.cx, conv.cy, conv.nw, conv.nh} : Micro(v) \in 0..1000000
        /\ Micro(conv.nw) > 0 /\ Micro(conv.nh) > 0

\* C1 witness: a record emitted for a box that was clipped to the full image
\* width (width exactly 1).
C1_Witness ==
    Emitted /\ conv.clipped /\ conv.raw.x < 0 /\ conv.nw[1] = conv.nw[2]

\* The class table as the specification prints it.
SpecTargetClass(c) ==
    CASE c \in {1, 2} -> 0
      [] c = 4 -> 2
      [] c \in {5, 6, 9} -> 3
      [] OTHER -> -1

\* C2: the class id of every emitted record is the table lookup of the source
\* class id (1->0, 2->0, 4->2, 5->3, 6->3, 9->3), hence in {0, 2, 3}; a line
\* whose source class id is not in {1, 2, 4, 5, 6, 9} produces no output,
\* whatever its geometry.
C2_ClassTable ==
    /\ Emitted =>
          /\ conv.cls \in {1, 2, 4, 5, 6, 9}
          /\ SpecTargetClass(conv.cls) \in {0, 2, 3}
          /\ conv.ret = FormatRecord(SpecTargetClass(conv.cls),
                                     conv.cx, conv.cy, conv.nw, conv.nh)
    /\ (Parsed /\ conv.cls \notin {1, 2, 4, 5, 6, 9}) => conv.ret = NoneVal

\* C2 witness: a van (source class 5) emitted.
C2_Witness == Emitted /\ conv.cls = 5

\* C3: a line with raw w < 10 or raw h < 10 is rejected for every class,
\* position and image size; a line with a mapped class and a box of exactly
\* w = 10, h = 10 lying inside the image is accepted.
C3_MinSizeBoundary ==
    Parsed =>
        /\ (conv.raw.w < 10 \/ conv.raw.h < 10) => conv.ret = NoneVal
        /\ ( /\ conv.cls \in {1, 2, 4, 5, 6, 9}
             /\ conv.raw.w = 10 /\ conv.raw.h = 10
             /\ conv.raw.x >= 0 /\ conv.raw.y >= 0
             /\ conv.raw.x + 10 <= img_width
             /\ conv.raw.y + 10 <= img_height ) => conv.ret # NoneVal

\* C3 witness: a 10 x 10 box inside the image emitted.
C3_Witness ==
    Emitted /\ conv.raw.w = 10 /\ conv.raw.h = 10 /\ ~conv.clipped

\* C4: for x >= 0, y >= 0 with x + w > imgWidth or y + h > imgHeight, the box
\* that the post-clip size check and the transform see has
\* w = min(w, imgWidth - x) and h = min(h, imgHeight - y), x and y unchanged;
\* the box 1270,700,50,50 on a 1280x720 image is clipped to w = 10, h = 20.
C4_ClipRightBottom ==
    /\ ( /\ Parsed
         /\ conv.stage \notin {"unmapped_class", "too_small"}
         /\ conv.raw.x >= 0 /\ conv.raw.y >= 0
         /\ \/ conv.raw.x + conv.raw.w > img_width
            \/ conv.raw.y + conv.raw.h > img_height ) =>
          LET w == IF conv.raw.w <= img_width - conv.raw.x
                   THEN conv.raw.w ELSE img_width - conv.raw.x
              h == IF conv.raw.h <= img_height - conv.raw.y
                   THEN conv.raw.h ELSE img_height - conv.raw.y
          IN  /\ conv.clipped
              /\ conv.box = [x |-> conv.raw.x, y |-> conv.raw.y, w |-> w, h |-> h]
              /\ (w < 10 \/ h < 10) <=> conv.stage = "too_small_after_clip"
              /\ Emitted =>
                    /\ conv.cx = <<2 * conv.raw.x + w, 2 * img_width>>
                    /\ conv.cy = <<2 * conv.raw.y + h, 2 * img_height>>
                    /\ conv.nw = <<w, img_width>>
                    /\ conv.nh = <<h, img_height>>
    /\ (Returned /\ line = OverflowLine /\ img_width = 1280 /\ img_height = 720) =>
          conv.box = [x |-> 1270, y |-> 700, w |-> 10, h |-> 20]

\* C4 witness: the 1270,700,50,50 box on a 1280x720 image, clipped and emitted.
C4_Witness ==
    /\ Emitted /\ line = OverflowLine /\ img_width = 1280 /\ img_height = 720
    /\ conv.clipped /\ conv.box.w = 10 /\ conv.box.h = 20

\* C5: the line "100,200,50,100,1,1,0,0" on a 1280x720 image produces exactly
\* "0 0.097656 0.347222 0.039063 0.138889".
C5_DocExample ==
    (Returned /\ line = DocLine /\ img_width = 1280 /\ img_height = 720) =>
        conv.ret = "0 0.097656 0.347222 0.039063 0.138889"

(***************************************************************************)
(* Properties of a run (checked under Spec)                                *)
(***************************************************************************)
Finished == pc \in {"done", "crashed"}

\* The image i of split s is readable, has an annotation file, and none of
\* the file's lines converts.
NoSurvivor(s, i) ==
    LET im == ImageCatalogue[src.dirs[s].images[i]]
    IN  /\ im.readable
        /\ im.has_annotation
        /\ \A k \in 1..Len(im.annotation) :
              Convert(im.annotation[k], im.width, im.height) = NoneVal

HasImageFile(o, s, i) == <<s, i>> \in DOMAIN o.images
HasLabelFile(o, s, i) == <<s, i>> \in DOMAIN o.labels

LogEntries == {log[k] : k \in 1..Len(log)}
KindOf(e) == src.dirs[e.split].images[e.image]

\* C6: in process_split, an image whose annotation file yields no surviving
\* record (every line rejected, or the file empty) causes no write: no file
\* for it is created under images/{split} or labels/{split}, and skipped is
\* incremented by exactly one.
C6_NoSurvivorNoWrite ==
    [][(pc = "convert" /\ NoSurvivor(split, img)) =>
          /\ skipped' = skipped + 1
          /\ processed' = processed
          /\ out' = out
          /\ ~HasImageFile(out', split, img)
          /\ ~HasLabelFile(out', split, img)
          /\ pc' = "image_loop"]_vars

\* C6 witness: an image with an empty annotation file and an image whose lines
\* are all rejected have both been skipped.
C6_Witness ==
    /\ \E e \in LogEntries : KindOf(e) = "empty" /\ e.outcome = "skipped"
    /\ \E e \in LogEntries : KindOf(e) = "all_rejected" /\ e.outcome = "skipped"

\* C7: in process_split, an image that cannot be read, or whose annotation
\* file does not exist, is skipped: skipped is incremented by one, no image or
\* label file is written for it, and the loop goes on with the next image.
C7_UnreadableOrUnannotatedSkipped ==
    [][/\ ( /\ pc = "image_loop" /\ image_files # <<>>
            /\ ~ImageCatalogue[src.dirs[split].images[Head(image_files)]].readable ) =>
              /\ skipped' = skipped + 1
              /\ processed' = processed
              /\ out' = out
              /\ ~HasImageFile(out', split, Head(image_files))
              /\ ~HasLabelFile(out', split, Head(image_files))
              /\ pc' = "image_loop"
              /\ image_files' = Tail(image_files)
       /\ ( /\ pc = "find_annotation"
            /\ ~ImageCatalogue[src.dirs[split].images[img]].has_annotation ) =>
              /\ skipped' = skipped + 1
              /\ processed' = processed
              /\ out' = out
              /\ ~HasImageFile(out', split, img)
              /\ ~HasLabelFile(out', split, img)
              /\ pc' = "image_loop"
              /\ image_files' = image_files]_vars

\* C7 witness: an unreadable image and an image without annotation file were
\* skipped, and an image was handled after a skipped one in the same split.
C7_Witness ==
    /\ \E e \in LogEntries : KindOf(e) = "unreadable" /\ e.outcome = "skipped"
    /\ \E e \in LogEntries : KindOf(e) = "no_annotation" /\ e.outcome = "skipped"
    /\ Len(log) >= 2
    /\ KindOf(log[1]) \in {"unreadable", "no_annotation"}
    /\ log[2].visit = log[1].visit

\* The number of log entries of a visit with an outcome.
Counted(v, outcome) ==
    Cardinality({k \in 1..Len(log) : log[k].visit = v /\ log[k].outcome = outcome})

\* C8: at the end of a run started on an empty output root, every image of a
\* requested split either has its copy and its label file in the output and
\* was counted as processed, or has neither and was counted as skipped (at
\* every visit of its split, and the counts returned are those counts).
C8_AllOrNothing ==
    Finished =>
        /\ \A v \in 1..Len(splits) :
              src.dirs[splits[v]].exists =>
                  /\ v <= Len(returned)
                  /\ returned[v] = <<Counted(v, "processed"), Counted(v, "skipped")>>
                  /\ \A i \in 1..Len(src.dirs[splits[v]].images) :
                        LET es == {e \in LogEntries : e.visit = v /\ e.image = i}
                        IN  /\ Cardinality(es) = 1
                            /\ \A e \in es :
                                  \/ /\ e.outcome = "processed"
                                     /\ HasImageFile(out, splits[v], i)
                                     /\ HasLabelFile(out, splits[v], i)
                                  \/ /\ e.outcome = "skipped"
                                     /\ ~HasImageFile(out, splits[v], i)
                                     /\ ~HasLabelFile(out, splits[v], i)
        /\ DOMAIN out.images = DOMAIN out.labels

\* C8 witness: a finished run that processed one image and skipped another
\* whose annotation file had lines.
C8_Witness ==
    /\ pc = "done"
    /\ \E e \in LogEntries : e.outcome = "processed"
    /\ \E e \in LogEntries : e.outcome = "skipped" /\ KindOf(e) = "all_rejected"

\* C9: when the source root does not exist the run aborts before any split is
\* processed and writes nothing (no split directory, no manifest).
C9_MissingRootFatal ==
    ~src.root_exists =>
        /\ returned = <<>>
        /\ out.dirs = {}
        /\ out.manifest = <<>>
        /\ pc # "done"

\* C10: a missing split image directory is a no-op for that split:
\* process_split returns (0, 0), writes nothing, and the run goes on to
\* process every remaining requested split.
C10_MissingSplitNoOp ==
    /\ [](/\ \A v \in 1..Len(returned) :
               ~src.dirs[splits[v]].exists => returned[v] = <<0, 0>>
          /\ \A s \in SplitNames :
               ~src.dirs[s].exists =>
                   /\ s \notin out.dirs
                   /\ \A k \in DOMAIN out.images \cup DOMAIN out.labels : k[1] # s
          /\ Finished => Len(returned) = Len(splits))
    /\ [][(pc = "main_loop" /\ split_idx <= Len(splits) /\ ~src.dirs[split].exists) =>
              /\ returned' = Append(returned, <<0, 0>>)
              /\ out' = out
              /\ total_processed' = total_processed
              /\ total_skipped' = total_skipped
              /\ split_idx' = split_idx + 1
              /\ pc' = "main_loop"]_vars

\* C10 witness: a finished run whose first split was missing and whose second
\* split had an image processed.
C10_Witness ==
    /\ pc = "done"
    /\ Len(splits) = 2
    /\ ~src.dirs[splits[1]].exists
    /\ returned = <<<<0, 0>>, <<1, 0>>>>

\* C11: when the source root exists the run never aborts, whatever lines,
\* images and split directories are malformed, unreadable or missing (every
\* requested split directory missing included): every requested split is
\* processed and the manifest is then written, once, after the last split.
C11_NeverAborts ==
    src.root_exists =>
        /\ pc # "crashed"
        /\ out.manifest # <<>> => (pc = "done" /\ Len(returned) = Len(splits))
        /\ pc = "done" =>
              (out.manifest = <<DatasetYaml>> /\ Len(returned) = Len(splits))

\* C13: the manifest records the relative split subpaths and a class-id ->
\* class-name table with the 4 entries of the target ids, and its declared
\* class count equals the number of entries of that table.
C13_ManifestClassTable ==
    out.manifest # <<>> =>
        LET m == out.manifest[1]
        IN  /\ m.train = "images/train"
            /\ m.val = "images/val"
            /\ Cardinality(DOMAIN m.names) = 4
            /\ m.nc = Cardinality(DOMAIN m.names)

\* What one line alone converts to for a W x H image: no record or one.
RecordsOfLine(ln, W, H) ==
    IF Convert(ln, W, H) = NoneVal THEN <<>> ELSE <<Convert(ln, W, H)>>

\* The records of the lines of a file, each line converted on its own, in
\* file order.
RECURSIVE PerLineAt(_, _, _)
PerLineAt(f, W, H) ==
    IF f = <<>> THEN <<>>
    ELSE RecordsOfLine(Head(f), W, H) \o PerLineAt(Tail(f), W, H)

\* A text with the records one per line.
RECURSIVE OnePerLine(_)
OnePerLine(records) ==
    IF records = <<>> THEN ""
    ELSE IF Len(records) = 1 THEN records[1]
    ELSE records[1] \o "\n" \o OnePerLine(Tail(records))

\* For each kind of image: the records of the surviving lines of its
\* annotation file, and the text that holds them one per line.
KindRecords ==
    [k \in ImageKinds |->
        PerLineAt(ImageCatalogue[k].annotation, ImageCatalogue[k].width,
                  ImageCatalogue[k].height)]

KindText == [k \in ImageKinds |-> OnePerLine(KindRecords[k])]

\* The kind of image i of split s.
KindAt(s, i) == src.dirs[s].images[i]

\* A record "classId cx cy w h" with a one-digit class id and four numbers
\* printed as d.dddddd takes 1 + 4 * (1 + 8) characters.
RecordLen == 37

\* C17: the label file of a processed image holds exactly one line per
\* surviving annotation line, in the order of the source file, each of the
\* form "classId cx cy w h": its text is the surviving records separated by
\* newlines, and the number of its lines is the number of non-rejected lines.
C17_LabelFileLines ==
    \A f \in DOMAIN out.labels :
        LET records == KindRecords[KindAt(f[1], f[2])]
            n == Len(records)
        IN  /\ n >= 1
            /\ out.labels[f] = KindText[KindAt(f[1], f[2])]
            /\ \A k \in 1..n : Len(records[k]) = RecordLen
            /\ Len(out.labels[f]) = n * RecordLen + (n - 1)

\* A label file with two records, made from a file with a rejected line
\* between the surviving ones, has been written.
C17_Witness ==
    \E f \in DOMAIN out.labels :
        LET image == ImageCatalogue[KindAt(f[1], f[2])]
            gives(k) == RecordsOfLine(image.annotation[k], image.width,
                                      image.height)
        IN  /\ Len(KindRecords[KindAt(f[1], f[2])]) = 2
            /\ \E a, k, b \in 1..Len(image.annotation) :
                  /\ a < k /\ k < b
                  /\ gives(a) # <<>> /\ gives(k) = <<>> /\ gives(b) # <<>>

\* The requested splits whose images directory exists.
RequestedDirs == {s \in {splits[k] : k \in 1..Len(splits)} : src.dirs[s].exists}

\* Image i of split s can be decoded, has an annotation file and at least one
\* of its lines converts.
Convertible(s, i) ==
    /\ ImageCatalogue[KindAt(s, i)].readable
    /\ ImageCatalogue[KindAt(s, i)].has_annotation
    /\ KindRecords[KindAt(s, i)] # <<>>

ConvertibleFiles ==
    UNION {{<<s, i>> : i \in {j \in 1..Len(src.dirs[s].images) : Convertible(s, j)}} :
           s \in RequestedDirs}

\* The label files fixed by the files of the source tree and the requested
\* splits alone; the listing order is no part of it.
ExpectedLabels == [f \in ConvertibleFiles |-> KindText[KindAt(f[1], f[2])]]

\* C12: a run that starts from an empty output directory ends with label files
\* and a manifest that are a function of the source files and the requested
\* splits, so two runs on the same inputs produce the same label files with
\* the same contents and the same manifest, whatever order the directory
\* listings return the images in.
C12_Deterministic ==
    Finished =>
        /\ DOMAIN out.labels = ConvertibleFiles
        /\ \A f \in ConvertibleFiles : out.labels[f] = ExpectedLabels[f]
        /\ pc = "done" => out.manifest = <<DatasetYaml>>
        /\ pc = "crashed" => out.manifest = <<>> /\ RequestedDirs = {}

\* A finished run that listed a directory of two images in reverse order, an
\* image without surviving line after an image with a label file.
C12_Witness ==
    /\ pc = "done"
    /\ \E s \in RequestedDirs :
          /\ src.dirs[s].listing = <<2, 1>>
          /\ ~Convertible(s, 1)
          /\ ImageCatalogue[src.dirs[s].images[1]].has_annotation
          /\ ImageCatalogue[src.dirs[s].images[1]].readable
          /\ <<s, 2>> \in DOMAIN out.labels

\* The images of split s that end with an image and a label in the output.
ConvertibleIn(s) == {i \in 1..Len(src.dirs[s].images) : Convertible(s, i)}

\* The splits whose call of process_split has returned.
ReturnedSplits == {splits[k] : k \in 1..Len(returned)}

\* C16: whatever order process_split visits the images of a split in, the
\* pair it returns and the image and label files it leaves are the ones the
\* set of images fixes, and the outcome of each image is the one the image
\* alone fixes, whichever images were handled before it.
C16_OrderIndependent ==
    /\ \A k \in 1..Len(returned) :
          returned[k] = <<Cardinality(ConvertibleIn(splits[k])),
                          Len(src.dirs[splits[k]].images)
                              - Cardinality(ConvertibleIn(splits[k]))>>
    /\ \A k \in 1..Len(log) :
          log[k].outcome = IF Convertible(log[k].split, log[k].image)
                           THEN "processed" ELSE "skipped"
    /\ \A s \in ReturnedSplits :
          /\ {i \in 1..MaxImages : <<s, i>> \in DOMAIN out.images} = ConvertibleIn(s)
          /\ {i \in 1..MaxImages : <<s, i>> \in DOMAIN out.labels} = ConvertibleIn(s)
          /\ \A i \in ConvertibleIn(s) :
                /\ out.images[<<s, i>>] = src.dirs[s].images[i]
                /\ out.labels[<<s, i>>] = KindText[KindAt(s, i)]

\* process_split has returned (1, 1) for a directory it listed in reverse
\* order, whose first image has a label file and whose second is undecodable.
C16_Witness ==
    /\ Len(returned) >= 1
    /\ src.dirs[splits[1]].listing = <<2, 1>>
    /\ ConvertibleIn(splits[1]) = {1}
    /\ ~ImageCatalogue[src.dirs[splits[1]].images[2]].readable
    /\ returned[1] = <<1, 1>>

\* A line the conversion drops as malformed: fewer than 8 fields, or a field
\* among x, y, w, h, class that is no integer.
MalformedLine(ln) ==
    \/ Len(Parts(ln)) < 8
    \/ \E i \in {1, 2, 3, 4, 6} : ~IntParses(Parts(ln)[i])

\* The file without its k-th line, and with the line m put before position k.
RemoveLine(f, k) == SubSeq(f, 1, k - 1) \o SubSeq(f, k + 1, Len(f))
InsertLine(f, k, m) == SubSeq(f, 1, k - 1) \o <<m>> \o SubSeq(f, k, Len(f))

\* C14: the records collected from an annotation file are the per-line
\* conversions of its lines, in order, a malformed line giving none; taking a
\* malformed line out, or putting one in at any position, leaves the records
\* of the other lines and their order as they are.
C14_MalformedLineLocal ==
    pc = "file_read" =>
        /\ yolo_lines = PerLineAt(ann, img_width, img_height)
        /\ \A k \in 1..Len(ann) :
              MalformedLine(ann[k]) =>
                  /\ RecordsOfLine(ann[k], img_width, img_height) = <<>>
                  /\ ConvertLines(RemoveLine(ann, k), img_width, img_height)
                        = yolo_lines
        /\ \A k \in 1..(Len(ann) + 1) :
              \A m \in {ShortLine, JunkLine, BlankLine} :
                  /\ MalformedLine(m)
                  /\ ConvertLines(InsertLine(ann, k, m), img_width, img_height)
                        = yolo_lines

\* A file has been read whose malformed line stands between two lines that
\* gave the two records collected.
C14_Witness ==
    /\ pc = "file_read"
    /\ Len(ann) = 3
    /\ MalformedLine(ann[2])
    /\ Len(yolo_lines) = 2
    /\ yolo_lines[1] # yolo_lines[2]

\* The number of comma-separated fields of a line.
FieldCount(ln) ==
    Cardinality({i \in 1..Len(Strip(ln)) : Strip(ln)[i] = ","}) + 1

\* The line cut after its eighth field.
FirstEight(ln) == Join(SubSeq(Parts(ln), 1, 8), ",")

\* C15: convert_visdrone_annotation returns None, and does not raise, on a
\* line with fewer than 8 comma-separated fields and on a line with a
\* non-integer in field 0, 1, 2, 3 or 5; a line with more than 8 fields gives
\* what its first 8 fields alone give.
C15_MalformedReturnsNone ==
    Returned =>
        /\ FieldCount(line) < 8 => conv.ret = NoneVal
        /\ (FieldCount(line) >= 8
               /\ \E i \in {1, 2, 3, 4, 6} : Parts(line)[i] \in JunkTokens)
              => conv.ret = NoneVal
        /\ FieldCount(line) > 8 =>
              conv.ret = Convert(FirstEight(line), img_width, img_height)

\* The call has returned None for an 8-field line whose class field is "abc"
\* and whose box fields are integers.
C15_Witness ==
    /\ Returned
    /\ FieldCount(line) = 8
    /\ Parts(line)[6] = <<"a", "b", "c">>
    /\ \A i \in 1..4 : Parts(line)[i] \notin JunkTokens
    /\ conv.ret = NoneVal
    /\ conv.stage = "malformed"

\* The line with its score, truncation and occlusion fields set to "0" and
\* its fields after the eighth dropped: what is left is x, y, w, h and class.
Canonical(ln) ==
    Join(<<Parts(ln)[1], Parts(ln)[2], Parts(ln)[3], Parts(ln)[4], <<"0">>,
           Parts(ln)[6], <<"0">>, <<"0">>>>, ",")

\* C18: for a line with at least 8 fields, the result (a record or None) is
\* the result of the line that keeps only fields 0-3 and 5, so two lines that
\* agree on these fields give the same result for the same image, whatever
\* text fields 4, 6, 7 and the fields after them hold.
C18_UnusedFieldsIgnored ==
    (Returned /\ FieldCount(line) >= 8) =>
        conv.ret = Convert(Canonical(line), img_width, img_height)

\* The call has returned a record for a line whose score, truncation or
\* occlusion field is no number.
C18_Witness ==
    /\ Emitted
    /\ FieldCount(line) = 8
    /\ \E i \in {5, 7, 8} : Parts(line)[i] \in {<<"a", "b", "c">>, <<>>}

\* C19: the pixel box an emitted record is computed from lies within the
\* image frame: x >= 0, y >= 0, x + w <= img_width, y + h <= img_height;
\* in normalized terms cx - nw/2 >= 0 and cx + nw/2 <= 1, and likewise for
\* cy and nh.
C19_BoxWithinFrame ==
    Emitted =>
        /\ conv.box.x >= 0
        /\ conv.box.y >= 0
        /\ conv.box.x + conv.box.w <= img_width
        /\ conv.box.y + conv.box.h <= img_height
        /\ 2 * conv.cx[1] * conv.nw[2] - conv.nw[1] * conv.cx[2] >= 0
        /\ 2 * conv.cx[1] * conv.nw[2] + conv.nw[1] * conv.cx[2]
              <= 2 * conv.cx[2] * conv.nw[2]
        /\ 2 * conv.cy[1] * conv.nh[2] - conv.nh[1] * conv.cy[2] >= 0
        /\ 2 * conv.cy[1] * conv.nh[2] + conv.nh[1] * conv.cy[2]
              <= 2 * conv.cy[2] * conv.nh[2]

\* A record has been emitted for a box annotated from left of the image and
\* down to below it.
C19_Witness ==
    /\ Emitted
    /\ conv.raw.x < 0
    /\ conv.raw.y + conv.raw.h > img_height
    /\ conv.box.y + conv.box.h = img_height

\* C20: clipping only shrinks: for every line with a box, the w and h after
\* the clipping step are at most the annotated w and h; and every emitted
\* record comes from a box whose w and h after clipping are at least
\* MIN_BOX_SIZE.
C20_ClipShrinksSizeHolds ==
    /\ Parsed => (conv.box.w <= conv.raw.w /\ conv.box.h <= conv.raw.h)
    /\ Emitted => (conv.box.w >= MIN_BOX_SIZE /\ conv.box.h >= MIN_BOX_SIZE)

\* A record has been emitted for a box that clipping made narrower, down to
\* exactly the minimum size.
C20_Witness ==
    /\ Emitted
    /\ conv.clipped
    /\ conv.box.w < conv.raw.w
    /\ conv.box.w = MIN_BOX_SIZE

\* The call went as far as computing cx, cy, nw and nh.
Transformed == conv.stage \in {"emitted", "invalid_range"}

\* C21: no box with a width or height of zero or less reaches the transform:
\* a line whose w or h is <= 0 as annotated, or <= 0 after clipping, is
\* rejected before cx, cy, nw and nh are computed, and by a size check when
\* its class is a mapped one.
C21_NoNonPositiveSizeTransformed ==
    /\ Transformed => (conv.box.w > 0 /\ conv.box.h > 0
                         /\ conv.raw.w > 0 /\ conv.raw.h > 0)
    /\ (Parsed /\ ClassIsMapped(conv.cls)
          /\ (conv.raw.w <= 0 \/ conv.raw.h <= 0
                \/ conv.box.w <= 0 \/ conv.box.h <= 0))
          => conv.stage \in {"too_small", "too_small_after_clip"}

\* A box of a mapped class that lies right of the image, clipped to a
\* negative width, has been rejected by the size check after clipping.
C21_Witness ==
    /\ Returned
    /\ conv.raw.w >= MIN_BOX_SIZE
    /\ conv.raw.x > img_width
    /\ conv.box.w < 0
    /\ conv.stage = "too_small_after_clip"

\* C22: for an image of width >= 1 and height >= 1, the range validation
\* rejects nothing: a box that passed the class filter, the size filter and,
\* when clipped, the size filter after clipping, is in the normalized range.
C22_ValidationNeverRejects ==
    (Returned /\ img_width >= 1 /\ img_height >= 1) =>
        /\ conv.stage # "invalid_range"
        /\ (Parsed /\ ClassIsMapped(conv.cls)
              /\ ~TooSmall(conv.raw.w, conv.raw.h)
              /\ ~(conv.clipped /\ TooSmall(conv.box.w, conv.box.h)))
              => (Emitted /\ Valid(conv.cx, conv.cy, conv.nw, conv.nh))

\* A clipped box as wide as the whole image has passed the validation with
\* a normalized width of exactly 1.
C22_Witness ==
    /\ Emitted
    /\ conv.clipped
    /\ conv.box.w = img_width
    /\ conv.nw[1] = conv.nw[2]

\* C23: the clipped box is the part of the annotated box inside the image:
\* for every box that survives clipping, the clipped box is contained in the
\* annotated one, its right edge at most x + w and its bottom edge at most
\* y + h, a negative x or y included.
C23_ClipIsIntersection ==
    (Emitted /\ conv.clipped) =>
        /\ conv.box.x >= conv.raw.x
        /\ conv.box.y >= conv.raw.y
        /\ conv.box.x + conv.box.w <= conv.raw.x + conv.raw.w
        /\ conv.box.y + conv.box.h <= conv.raw.y + conv.raw.h

\* The log entries of the k-th call of process_split about image i.
CountedIn(k, i) == {j \in 1..Len(log) : log[j].visit = k /\ log[j].image = i}

\* The number of images the k-th call counted with the given outcome.
OutcomeCount(k, outcome) ==
    Cardinality({j \in 1..Len(log) :
                    log[j].visit = k /\ log[j].outcome = outcome})

\* C24: when the images directory of the split exists, the pair process_split
\* returns has processed + skipped = number of .jpg files listed, and every
\* image is counted exactly once, in exactly one of the two counters.
C24_CounterConservation ==
    \A k \in 1..Len(returned) :
        src.dirs[splits[k]].exists =>
            /\ returned[k][1] + returned[k][2] = Len(src.dirs[splits[k]].images)
            /\ \A i \in 1..Len(src.dirs[splits[k]].images) :
                  Cardinality(CountedIn(k, i)) = 1
            /\ returned[k][1] = OutcomeCount(k, "processed")
            /\ returned[k][2] = OutcomeCount(k, "skipped")

\* process_split has returned for a directory of two images, one converted
\* and one without annotation file.
C24_Witness ==
    /\ Len(returned) >= 1
    /\ src.dirs[splits[1]].exists
    /\ Len(src.dirs[splits[1]].images) = 2
    /\ \E i \in 1..2 : KindAt(splits[1], i) = "no_annotation"
    /\ returned[1][1] = 1
    /\ returned[1][2] = 1

\* The number of files under the output directories.
FileCount(files) == Cardinality(DOMAIN files)

\* C25: after a run that started from an empty output root, the total
\* processed count main reports is the number of label files, and of image
\* files, under the output directories, for every list of split names.
C25_TotalMatchesFiles ==
    pc = "done" =>
        /\ total_processed = FileCount(out.labels)
        /\ total_processed = FileCount(out.images)

\* C26: in every state of a run that started from an empty output root,
\* every label file present has its image present, and the processed counter
\* of the split being handled is at most the number of label files written
\* for that split.
C26_ImageBeforeLabelBeforeCount ==
    /\ DOMAIN out.labels \subseteq DOMAIN out.images
    /\ pc \in {"image_loop", "find_annotation", "convert", "copy_image",
               "write_label", "count"}
          => processed <= Cardinality({f \in DOMAIN out.labels : f[1] = split})

\* The image of the second converted image of a split has been copied and
\* its label is not written yet, the counter standing at one.
C26_Witness ==
    /\ pc = "write_label"
    /\ processed = 1
    /\ <<split, img>> \in DOMAIN out.images
    /\ <<split, img>> \notin DOMAIN out.labels
    /\ Cardinality({f \in DOMAIN out.labels : f[1] = split}) = 1

\* C27: a second run with unchanged inputs into the output left by the first
\* run ends as the first did, with every output image, every label file and
\* the manifest holding the same content, and it reports the same processed
\* and skipped counts; no output file differs from the first run's while the
\* second run is under way.
C27_RerunIdempotent ==
    first_run # <<>> =>
        /\ out.images = first_run[1].out.images
        /\ out.labels = first_run[1].out.labels
        /\ Finished =>
              /\ pc = first_run[1].ended
              /\ out = first_run[1].out
              /\ returned = first_run[1].returned
              /\ total_processed = first_run[1].total_processed
              /\ total_skipped = first_run[1].total_skipped

\* A second run has ended after a first run that converted one image and
\* skipped another.
C27_Witness ==
    /\ first_run # <<>>
    /\ pc = "done"
    /\ first_run[1].total_processed >= 1
    /\ first_run[1].total_skipped >= 1
    /\ FileCount(out.labels) >= 1

\* C28: in train(), a value passed for epochs, batch, device, project or name
\* (any value but None) is the value handed to model.train(), whatever the
\* training config holds; without a passed value the config's value is
\* handed, and the default only when the config has no such key.
C28_ArgumentsOverrideConfig ==
    pc = "train_called" =>
        \A k \in TrainParams :
            /\ train_args[k] # PyNone => train_kwargs[k] = train_args[k]
            /\ train_args[k] = PyNone =>
                  train_kwargs[k] =
                      IF training_config.exists
                         /\ k \in DOMAIN training_config.content.items
                      THEN training_config.content.items[k]
                      ELSE TrainDefault[k]

\* C29: whenever export_to_coreml returns a path named
\* SniperScope_Detector_INT8, the model stored at that path has had the 8-bit
\* weight quantization applied, with coremltools available or not and the
\* quantization succeeding or failing.
C29_Int8NameIsTruthful ==
    (pc = "export_returned"
        /\ export_result \in {FinalName("int8", x) : x \in Suffixes})
    => output_path[export_result] = Model("int8")

\* The image and the label files among the files written.
SampleImages == {f \in dataset_files : f.dir = "images"}
SampleLabels == {f \in dataset_files : f.dir = "labels"}

\* The split names as a set.
SampleSplitSet == {SampleSplits[k] : k \in DOMAIN SampleSplits}

\* The sample files a dataset of n samples has when the ids 0..n-1 go to
\* train, val and test in that order, for split sizes c.
SamplesExpected(c) ==
    LET first == [train |-> 0, val |-> c.train, test |-> c.train + c.val]
    IN  UNION {UNION {{SampleFile("images", s, SampleName(k, ".jpg")),
                       SampleFile("labels", s, SampleName(k, ".txt"))} :
                          k \in first[s]..(first[s] + c[s] - 1)} :
                  s \in SampleSplitSet}

====
